---- MODULE Spec2Model ----
(***************************************************************************)
(* Model of the CSV-driven batch visual comparison suite                   *)
(* (tests/automated-screenshot-comparison.test.ts): the Jest hooks, the    *)
(* four test steps, establishBaseline and performEyesComparison, with the  *)
(* browser, the file system and the Eyes client as a nondeterministic      *)
(* environment whose calls return or throw.                                *)
(***************************************************************************)
EXTENDS Integers, Sequences, FiniteSets, TLC

\* Bound: number of collaborator calls (browser, Eyes, fs) that throw in a run.
MaxFaults == 2

\* An optional field (appUrl?, error?) or variable that has no value.
NoValue == "undefined"

\* ---- CSV rows and files ------------------------------------------------
rowExample == [url |-> "https://example.com", name |-> "Example"]
rowGoogle == [url |-> "https://google.com", name |-> "Google"]
rowNoName == [url |-> "https://example.com", name |-> ""]

\* The sample file Step 2 writes when a CSV file does not exist.
sampleContent == <<rowExample, rowGoogle>>

\* Row sequences the CSV files hold at the start of a run.
CsvContents ==
    { <<>>, <<rowExample>>, <<rowNoName>>,
      <<rowExample, rowGoogle>>, <<rowGoogle, rowExample>>,
      <<rowExample, rowExample>>, <<rowNoName, rowGoogle>>,
      <<rowExample, rowNoName, rowGoogle>> }

\* A file on disk: absent, present with zero bytes, or a header and rows.
MissingFile == [exists |-> FALSE, header |-> FALSE, rows |-> <<>>]
EmptyFile == [exists |-> TRUE, header |-> FALSE, rows |-> <<>>]
CsvFile(rows) == [exists |-> TRUE, header |-> TRUE, rows |-> rows]
FileStates == {MissingFile, EmptyFile} \cup {CsvFile(r) : r \in CsvContents}

csvFiles == <<"source", "target">>

\* stats.size of a file: 0 exactly for a file without header and rows.
FileSize(f) == IF f.header THEN 1 + Len(f.rows) ELSE 0

\* ---- TestResults the Eyes client can return from close() ---------------
RemoteResults ==
    { [status |-> "Passed", url |-> "dash/1", steps |-> 1,
       matches |-> 1, mismatches |-> 0, missing |-> 0],
      [status |-> "Passed", url |-> "dash/2", steps |-> 1,
       matches |-> 0, mismatches |-> 0, missing |-> 0],
      [status |-> "Failed", url |-> "dash/3", steps |-> 2,
       matches |-> 0, mismatches |-> 2, missing |-> 0],
      [status |-> "Unresolved", url |-> "dash/4", steps |-> 3,
       matches |-> 1, mismatches |-> 1, missing |-> 3] }

VARIABLES
    apiKey,        \* process.env.APPLITOOLS_API_KEY is set
    files,         \* the file system: csvFiles name -> file
    testSummary,   \* the run summary (counters, errors, eyesResults)
    page,          \* the shared page: "undefined", "open" or "closed"
    freshPages,    \* pages opened inside a helper and held only by localPage
    openSessions,  \* Eyes sessions opened and not yet closed or aborted
    testNo,        \* the Jest test being run, 1..4 (5 once all have run)
    pc,            \* position inside the current hook, test or helper
    failedTests,   \* the tests whose function threw
    urls,          \* the entries read by the current step
    idx,           \* index in urls of the entry being processed
    eyesOpened,    \* the helper's local flag
    localPage,     \* the helper's local page: "shared", "fresh" or "closed"
    result,        \* the ComparisonResult being built
    error,         \* the exception caught by the helper
    calls,         \* collaborator calls made for the current entry
    log,           \* per finished entry: helper, entry and calls made
    faults,        \* number of collaborator calls that have thrown
    readOutcome,   \* per CSV file: how the promise of its readCsvFile ended
    report,        \* what generateSummaryReport rendered and wrote
    suite,         \* the test suite being run
    runtimeConfig, \* the runtime configuration module's stored configuration
    process,       \* argv, the APPLITOOLS_API_KEY of env, and the exit status
    outcome,       \* what the last call of an exported function did
    child,         \* the wrapper's child process
    document       \* the sample page's DOM

vars == <<apiKey, files, testSummary, page, freshPages, openSessions, testNo, pc,
          failedTests, urls, idx, eyesOpened, localPage, result, error,
          calls, log, faults, readOutcome, report, suite, runtimeConfig,
          process, outcome, child, document>>

\* The state of the repository's other programs: the runtime configuration
\* module, the run-with-api-key wrapper and the sample page.
otherPrograms == <<suite, runtimeConfig, process, outcome, child, document>>

\* Variables local to one helper invocation.
locals == <<urls, idx, eyesOpened, localPage, result, error, calls>>

\* ---- Pure helpers --------------------------------------------------------
\* beforeAll: the summary starts with zero counters and empty lists.
InitSummary ==
    [totalUrls |-> 0, successfulComparisons |-> 0, failedComparisons |-> 0,
     totalMatches |-> 0, totalMismatches |-> 0, totalMissing |-> 0,
     errors |-> <<>>, eyesResults |-> <<>>]

\* Variant of ValidRows: only the url is required.
RECURSIVE ValidRows_UrlOnly(_)
ValidRows_UrlOnly(rows) ==
    IF rows = <<>> THEN <<>>
    ELSE IF Head(rows).url # ""
         THEN <<Head(rows)>> \o ValidRows_UrlOnly(Tail(rows))
         ELSE ValidRows_UrlOnly(Tail(rows))

\* readCsvFile's data handler: keep the rows with a url and a name, in order.
RECURSIVE ValidRows(_)
ValidRows(rows) ==
    IF rows = <<>> THEN <<>>
    ELSE IF Head(rows).url # "" /\ Head(rows).name # ""
         THEN <<Head(rows)>> \o ValidRows(Tail(rows))
         ELSE ValidRows(Tail(rows))

\* Variant of NewResult: the result starts out as a pass.
NewResult_Optimistic(urlEntry) ==
    [url |-> urlEntry.url, testName |-> urlEntry.name, status |-> "Passed",
     appUrl |-> NoValue, stepsInfo |-> 0, matches |-> 0, mismatches |-> 0,
     missing |-> 0, success |-> FALSE, error |-> NoValue]

\* The result object performEyesComparison starts from.
NewResult(urlEntry) ==
    [url |-> urlEntry.url, testName |-> urlEntry.name, status |-> "Failed",
     appUrl |-> NoValue, stepsInfo |-> 0, matches |-> 0, mismatches |-> 0,
     missing |-> 0, success |-> FALSE, error |-> NoValue]

NoResult == NewResult([url |-> "", name |-> ""])

\* An entry of testSummary.errors: the message prefix and its interpolations.
ErrorMsg(kind, subject, err) == [kind |-> kind, subject |-> subject, err |-> err]

\* close() returned no TestResults.
NoResults ==
    [status |-> "none", url |-> NoValue, steps |-> 0,
     matches |-> 0, mismatches |-> 0, missing |-> 0]

\* config.timeout, config.viewport and the settle delay, in the units the
\* code passes them (milliseconds, pixels).
configTimeout == 60000
viewportWidth == 1920
viewportHeight == 1080
settleDelay == 2000

\* The arguments the helpers pass to a collaborator, other than the entry's
\* own url and name: an option or target, and up to two numbers.
Args(opt, n, m) == [opt |-> opt, n |-> n, m |-> m]
CallArgs(op) ==
    CASE op = "goto" -> Args("networkidle", configTimeout, 0)
      [] op = "waitForTimeout" -> Args("", settleDelay, 0)
      [] op = "setViewportSize" -> Args("", viewportWidth, viewportHeight)
      [] op = "check" -> Args("Target.window().fully()", 0, 0)
      [] OTHER -> Args("", 0, 0)

\* A collaborator call: the operation, its arguments, whether it returned,
\* what it returned.
Call(op, ok) == [op |-> op, ok |-> ok, ret |-> NoResults, args |-> CallArgs(op)]
CallRet(op, r) == [op |-> op, ok |-> TRUE, ret |-> r, args |-> CallArgs(op)]

\* abortIfNotClosed was invoked: the session the client held, if any, counts
\* as released, whether or not the call then throws (a throw is only logged
\* by the callers; what it left on the server is outside this code).
Released(n) == IF n > 0 THEN n - 1 ELSE 0

\* Variant of PushError: the message is put in front of the list.
PushError_Prepends(summary, msg) ==
    [summary EXCEPT !.errors = <<msg>> \o @]

\* testSummary.errors.push(msg)
PushError(summary, msg) == [summary EXCEPT !.errors = Append(@, msg)]

\* ---- generateSummaryReport ------------------------------------------------
\* A line of the report: its label, and its number or text.
Line(label, num, text) == [label |-> label, num |-> num, text |-> text]
EmptyLine == Line("", 0, "")

\* A template condition on an optional string: undefined and '' are falsy.
Truthy(v) == v # NoValue /\ v # ""

\* Variant of SuccessRate: the quotient is formatted without the guard.
SuccessRate_NoGuard(summary) ==
    LET succeeded == summary.successfulComparisons
        totalComparisons == succeeded + summary.failedComparisons
    IN IF totalComparisons = 0
       THEN [text |-> "NaN", hundredths |-> 0]
       ELSE [text |-> "toFixed(2)",
             hundredths |-> (2 * succeeded * 10000 + totalComparisons)
                               \div (2 * totalComparisons)]

\* successRate: '0' when no comparison was counted, otherwise
\* (successful / total * 100).toFixed(2), kept as the number of hundredths
\* the two decimals denote (round to nearest, a tie upwards).
SuccessRate(summary) ==
    LET succeeded == summary.successfulComparisons
        totalComparisons == succeeded + summary.failedComparisons
    IN IF totalComparisons > 0
       THEN [text |-> "toFixed(2)",
             hundredths |-> (2 * succeeded * 10000 + totalComparisons)
                               \div (2 * totalComparisons)]
       ELSE [text |-> "0", hundredths |-> 0]

\* Variant of RenderBlock: a result with an error shows it in place of its
\* counts.
RenderBlock_ErrorInsteadOfCounts(res, index) ==
    IF Truthy(res.error)
    THEN << Line("###", index, res.testName),
            Line("URL", 0, res.url),
            Line("Status", 0, res.status),
            Line("Error", 0, res.error) >>
    ELSE << Line("###", index, res.testName),
            Line("URL", 0, res.url),
            Line("Status", 0, res.status),
            Line("Matches", res.matches, ""),
            Line("Mismatches", res.mismatches, ""),
            Line("Missing", res.missing, ""),
            Line("Steps", res.stepsInfo, ""),
            IF Truthy(res.appUrl)
            THEN Line("Applitools Results", 0, res.appUrl) ELSE EmptyLine >>

\* One block of "Detailed Results": heading, url, status, the three counts
\* and the steps always; the link and the error only when set, an empty
\* line otherwise.
RenderBlock(res, index) ==
    << Line("###", index, res.testName),
       Line("URL", 0, res.url),
       Line("Status", 0, res.status),
       Line("Matches", res.matches, ""),
       Line("Mismatches", res.mismatches, ""),
       Line("Missing", res.missing, ""),
       Line("Steps", res.stepsInfo, ""),
       IF Truthy(res.appUrl)
       THEN Line("Applitools Results", 0, res.appUrl) ELSE EmptyLine,
       IF Truthy(res.error) THEN Line("Error", 0, res.error) ELSE EmptyLine >>

\* reportContent: the summary lines, one block per result in result order,
\* and the numbered errors (or the sentence that there are none).
RenderReport(summary) ==
    [totalUrls |-> summary.totalUrls,
     successful |-> summary.successfulComparisons,
     failed |-> summary.failedComparisons,
     successRate |-> SuccessRate(summary),
     totalMatches |-> summary.totalMatches,
     totalMismatches |-> summary.totalMismatches,
     totalMissing |-> summary.totalMissing,
     blocks |-> [i \in DOMAIN summary.eyesResults |->
                    RenderBlock(summary.eyesResults[i], i)],
     noErrors |-> (Len(summary.errors) = 0),
     errors |-> [i \in DOMAIN summary.errors |->
                    [index |-> i, msg |-> summary.errors[i]]]]

\* No report yet: generateSummaryReport has not run.
NoReport == [generated |-> FALSE, saved |-> FALSE, content |-> RenderReport(InitSummary)]

\* ---- Init: the state after beforeAll ------------------------------------
\* ---- Values of the other programs -----------------------------------------
\* A JavaScript string is kept as the sequence of its pieces between '=' signs
\* (what split('=') returns): "abc" is <<"abc">>, "a=b" is <<"a", "b">> and
\* the empty string is <<"">>.  Null stands for null and undefined.
Str(segs) == [isNull |-> FALSE, segs |-> segs]
Null == [isNull |-> TRUE, segs |-> <<>>]
JsTruthy(v) == ~v.isNull /\ v.segs # <<"">>

\* let runtimeConfig: RuntimeConfig | null = null
NullConfig == [isNull |-> TRUE, hasApiKey |-> FALSE, apiKey |-> Null, appName |-> Null]

\* A process that has not been given arguments or a key and is running.
IdleProcess == [argv |-> <<>>, env |-> Null, exited |-> FALSE, exitCode |-> 0]

NoOutcome ==
    [fn |-> "none", threw |-> FALSE, value |-> Null, flag |-> FALSE,
     eyesKey |-> Null, hadConfig |-> NullConfig, override |-> NullConfig]

\* An exit code of a process: a number, or null when a signal ended it.
Code(n) == [isNull |-> FALSE, n |-> n]
NullCode == [isNull |-> TRUE, n |-> 0]

NoChild == [state |-> "none", code |-> NullCode, envKey |-> Null, command |-> <<>>]

\* The sample page as loaded: modal hidden, light theme, nothing hovered.
MaxCards == 3
LoadedDocument ==
    [modalShow |-> FALSE, bodyOverflow |-> "", darkTheme |-> FALSE,
     toggleText |-> "Toggle Dark Mode", toggleTransform |-> "",
     timers |-> 0,
     cardBorder |-> [c \in 1..MaxCards |-> ""]]

\* None of the other programs is running.
NoOtherProgram ==
    /\ runtimeConfig = NullConfig
    /\ process = IdleProcess
    /\ outcome = NoOutcome
    /\ child = NoChild
    /\ document = LoadedDocument

Init ==
    /\ apiKey \in BOOLEAN
    /\ files \in [{"source", "target"} -> FileStates]
    /\ testSummary = InitSummary
    /\ page = "undefined"
    /\ freshPages = 0
    /\ openSessions = 0
    /\ testNo = 1
    /\ pc = "beforeEach"
    /\ failedTests = {}
    /\ urls = <<>>
    /\ idx = 1
    /\ eyesOpened = FALSE
    /\ localPage = "shared"
    /\ result = NoResult
    /\ error = NoValue
    /\ calls = <<>>
    /\ log = <<>>
    /\ faults = 0
    /\ readOutcome = [f \in {"source", "target"} |-> "none"]
    /\ report = NoReport
    /\ suite = "batch"
    /\ NoOtherProgram

\* A Jest test function returns or throws; the runner goes on to the next
\* test, or to afterAll after the last one.
EndTest(threw) ==
    /\ failedTests' = IF threw THEN failedTests \cup {testNo} ELSE failedTests
    /\ testNo' = testNo + 1
    /\ pc' = IF testNo = 4 THEN "afterAll" ELSE "beforeEach"

CanFault == faults < MaxFaults

\* ---- Jest hooks ---------------------------------------------------------
\* beforeEach: create the shared page when there is none or it was closed.
BeforeEach ==
    /\ pc = "beforeEach"
    /\ page' = IF page \in {"undefined", "closed"} THEN "open" ELSE page
    /\ pc' = "test"
    /\ UNCHANGED <<readOutcome, report, otherPrograms, apiKey, files, testSummary, freshPages, openSessions, testNo,
                   failedTests, locals, log, faults>>

\* Step 1: record the missing-key warning, ensure the results directory.
Step1 ==
    /\ pc = "test" /\ testNo = 1
    /\ LET warned == IF apiKey THEN testSummary
                     ELSE PushError(testSummary,
                                    ErrorMsg("APPLITOOLS_API_KEY not set", "", ""))
       IN \/ /\ testSummary' = warned
             /\ faults' = faults
             /\ EndTest(FALSE)
          \/ /\ CanFault
             /\ testSummary' = PushError(warned,
                    ErrorMsg("Failed to create results directory", "", "ensureDir failed"))
             /\ faults' = faults + 1
             /\ EndTest(TRUE)
    /\ UNCHANGED <<readOutcome, report, otherPrograms, apiKey, files, page, freshPages, openSessions, locals, log>>

\* Variant of ValidateCsv: a file of zero bytes is rewritten with the sample
\* content as well.
ValidateCsv_RewritesEmpty(name, f, fsThrows) ==
    LET written == IF f.exists /\ FileSize(f) > 0 THEN f
                   ELSE CsvFile(sampleContent)
    IN IF fsThrows
       THEN [file |-> f,
             msgs |-> <<ErrorMsg("Failed to validate CSV file", name, "fs failed")>>,
             threw |-> TRUE]
       ELSE [file |-> written, msgs |-> <<>>, threw |-> FALSE]

\* Step 2, one file of the loop: a missing file is created with the sample
\* content; an empty file pushes its message, throws into the catch of the
\* same iteration, which pushes a second message and throws again.
\* Returns the file, the messages pushed and whether the iteration threw.
ValidateCsv(name, f, fsThrows) ==
    LET written == IF f.exists THEN f ELSE CsvFile(sampleContent)
    IN IF fsThrows
       THEN [file |-> f,
             msgs |-> <<ErrorMsg("Failed to validate CSV file", name, "fs failed")>>,
             threw |-> TRUE]
       ELSE IF FileSize(written) = 0
       THEN [file |-> written,
             msgs |-> <<ErrorMsg("CSV file is empty", name, ""),
                       ErrorMsg("Failed to validate CSV file", name, "CSV file is empty")>>,
             threw |-> TRUE]
       ELSE [file |-> written, msgs |-> <<>>, threw |-> FALSE]

Step2 ==
    /\ pc = "test" /\ testNo = 2
    /\ \E t1 \in BOOLEAN, t2 \in BOOLEAN :
         LET n == (IF t1 THEN 1 ELSE 0) + (IF t2 THEN 1 ELSE 0)
             v1 == ValidateCsv(csvFiles[1], files[csvFiles[1]], t1)
             v2 == ValidateCsv(csvFiles[2], files[csvFiles[2]], t2)
         IN /\ faults + n <= MaxFaults
            /\ v1.threw => ~t2
            /\ IF v1.threw
               THEN /\ files' = [files EXCEPT ![csvFiles[1]] = v1.file]
                    /\ testSummary' = [testSummary EXCEPT !.errors = @ \o v1.msgs]
                    /\ EndTest(TRUE)
               ELSE /\ files' = [files EXCEPT ![csvFiles[1]] = v1.file,
                                              ![csvFiles[2]] = v2.file]
                    /\ testSummary' = [testSummary EXCEPT !.errors = @ \o v2.msgs]
                    /\ EndTest(v2.threw)
            /\ faults' = faults + n
    /\ UNCHANGED <<readOutcome, report, otherPrograms, apiKey, page, freshPages, openSessions, locals, log>>

\* ---- readCsvFile ---------------------------------------------------------
\* The promise readCsvFile returns: it resolves with the valid rows at the
\* end of the stream and rejects on an error of the csv parser.  The error
\* listener is attached to the parser, not to the file stream: when the file
\* cannot be opened the promise never settles and the runner fails the test
\* (uncaught stream error, or the test's timeout); the caller's catch block
\* does not run.
readCsvFile(f, parserThrows) ==
    IF ~f.exists THEN [settled |-> "never", rows |-> <<>>]
    ELSE IF parserThrows THEN [settled |-> "rejected", rows |-> <<>>]
    ELSE [settled |-> "resolved", rows |-> ValidRows(f.rows)]

\* ---- Step 3 and establishBaseline ---------------------------------------
\* Step 3 up to the loop: skip without a key, read the source file.
Step3 ==
    /\ pc = "test" /\ testNo = 3
    /\ IF ~apiKey
       THEN /\ EndTest(FALSE)
            /\ UNCHANGED <<testSummary, urls, idx, faults, readOutcome>>
       ELSE \E parserThrows \in BOOLEAN :
              LET r == readCsvFile(files[csvFiles[1]], parserThrows)
              IN /\ parserThrows => CanFault /\ r.settled = "rejected"
                 /\ faults' = IF parserThrows THEN faults + 1 ELSE faults
                 /\ readOutcome' = [readOutcome EXCEPT ![csvFiles[1]] = r.settled]
                 /\ CASE r.settled = "never" ->
                           /\ EndTest(TRUE)
                           /\ UNCHANGED <<testSummary, urls, idx>>
                      [] r.settled = "rejected" ->
                           /\ testSummary' = PushError(testSummary,
                                  ErrorMsg("Failed to establish baselines", "", "parse error"))
                           /\ EndTest(TRUE)
                           /\ UNCHANGED <<urls, idx>>
                      [] r.settled = "resolved" ->
                           /\ urls' = r.rows
                           /\ idx' = 1
                           /\ testSummary' = [testSummary EXCEPT
                                                !.totalUrls = @ + Len(r.rows)]
                           /\ pc' = "step3loop"
                           /\ UNCHANGED <<testNo, failedTests>>
    /\ UNCHANGED <<report, otherPrograms, apiKey, files, page, freshPages, openSessions, eyesOpened,
                   localPage, result, error, calls, log>>

\* The loop of Step 3 is exhausted: the test function returns.
Step3Done ==
    /\ pc = "step3loop" /\ idx > Len(urls)
    /\ EndTest(FALSE)
    /\ urls' = <<>> /\ idx' = 1
    /\ UNCHANGED <<readOutcome, report, otherPrograms, apiKey, files, testSummary, page, freshPages, openSessions,
                   eyesOpened, localPage, result, error, calls, log, faults>>

\* establishBaseline, entry and page acquisition: the shared page is used
\* when it is open, otherwise a fresh page is opened and given the viewport.
EB_Acquire ==
    /\ pc = "step3loop" /\ idx <= Len(urls)
    /\ eyesOpened' = FALSE
    /\ error' = NoValue
    /\ IF page = "open"
       THEN /\ localPage' = "shared"
            /\ calls' = <<>>
            /\ pc' = "eb_open"
            /\ UNCHANGED <<freshPages, faults>>
       ELSE \/ /\ localPage' = "fresh"
               /\ freshPages' = freshPages + 1
               /\ calls' = <<Call("newPage", TRUE), Call("setViewportSize", TRUE)>>
               /\ pc' = "eb_open"
               /\ UNCHANGED faults
            \/ /\ CanFault
               /\ faults' = faults + 1
               /\ localPage' = "shared"
               /\ calls' = <<Call("newPage", FALSE)>>
               /\ error' = "newPage failed"
               /\ pc' = "eb_catch"
               /\ UNCHANGED freshPages
    /\ UNCHANGED <<readOutcome, report, otherPrograms, apiKey, files, testSummary, page, openSessions, testNo,
                   failedTests, urls, idx, result, log>>

\* eyes.open, then eyesOpened = true.
EB_Open ==
    /\ pc = "eb_open"
    /\ \/ /\ openSessions' = openSessions + 1
          /\ eyesOpened' = TRUE
          /\ calls' = Append(calls, Call("open", TRUE))
          /\ pc' = "eb_goto"
          /\ UNCHANGED <<error, faults>>
       \/ /\ CanFault
          /\ faults' = faults + 1
          /\ calls' = Append(calls, Call("open", FALSE))
          /\ error' = "open failed"
          /\ pc' = "eb_catch"
          /\ UNCHANGED <<openSessions, eyesOpened>>
    /\ UNCHANGED <<readOutcome, report, otherPrograms, apiKey, files, testSummary, page, freshPages, testNo,
                   failedTests, urls, idx, localPage, result, log>>

\* localPage.goto with networkidle and the timeout, then waitForTimeout.
\* A navigation that throws may have lost the page (crashed or closed).
EB_Goto ==
    /\ pc = "eb_goto"
    /\ \/ /\ calls' = calls \o <<Call("goto", TRUE), Call("waitForTimeout", TRUE)>>
          /\ pc' = "eb_check"
          /\ UNCHANGED <<error, faults, page, localPage, freshPages>>
       \/ /\ CanFault
          /\ faults' = faults + 1
          /\ calls' = Append(calls, Call("goto", FALSE))
          /\ error' = "Timeout"
          /\ pc' = "eb_catch"
          /\ \E lost \in BOOLEAN :
               IF ~lost THEN UNCHANGED <<page, localPage, freshPages>>
               ELSE IF localPage = "shared"
               THEN page' = "closed" /\ UNCHANGED <<localPage, freshPages>>
               ELSE /\ localPage' = "closed"
                    /\ freshPages' = freshPages - 1
                    /\ UNCHANGED page
    /\ UNCHANGED <<readOutcome, report, otherPrograms, apiKey, files, testSummary, openSessions, testNo, failedTests,
                   urls, idx, eyesOpened, result, log>>

\* eyes.check of the full page.
EB_Check ==
    /\ pc = "eb_check"
    /\ \/ /\ calls' = Append(calls, Call("check", TRUE))
          /\ pc' = "eb_close"
          /\ UNCHANGED <<error, faults>>
       \/ /\ CanFault
          /\ faults' = faults + 1
          /\ calls' = Append(calls, Call("check", FALSE))
          /\ error' = "check failed"
          /\ pc' = "eb_catch"
    /\ UNCHANGED <<readOutcome, report, otherPrograms, apiKey, files, testSummary, page, freshPages, openSessions,
                   testNo, failedTests, urls, idx, eyesOpened, localPage,
                   result, log>>

\* eyes.close, then eyesOpened = false; the results are only logged.
EB_Close ==
    /\ pc = "eb_close"
    /\ \/ /\ openSessions' = openSessions - 1
          /\ eyesOpened' = FALSE
          /\ calls' = Append(calls, Call("close", TRUE))
          /\ pc' = "eb_return"
          /\ UNCHANGED <<error, faults>>
       \/ /\ CanFault
          /\ faults' = faults + 1
          /\ calls' = Append(calls, Call("close", FALSE))
          /\ error' = "close failed"
          /\ pc' = "eb_catch"
          /\ UNCHANGED <<openSessions, eyesOpened>>
    /\ UNCHANGED <<readOutcome, report, otherPrograms, apiKey, files, testSummary, page, freshPages, testNo,
                   failedTests, urls, idx, localPage, result, log>>

\* Variant of EB_Catch: the catch block does not abort the session.
EB_Catch_NoAbort ==
    /\ pc = "eb_catch"
    /\ testSummary' = PushError(testSummary,
           ErrorMsg("Failed to establish baseline for", urls[idx].url, error))
    /\ pc' = "eb_return"
    /\ UNCHANGED <<readOutcome, report, otherPrograms, apiKey, files, page, freshPages, openSessions, testNo,
                   failedTests, urls, idx, eyesOpened, localPage, result,
                   error, calls, log, faults>>

\* The catch block: abort the session if it is marked open (an abort that
\* throws is only logged), then push the message to the summary's errors.
EB_Catch ==
    /\ pc = "eb_catch"
    /\ IF eyesOpened
       THEN \/ /\ calls' = Append(calls, Call("abortIfNotClosed", TRUE))
               /\ openSessions' = Released(openSessions)
               /\ UNCHANGED faults
            \/ /\ CanFault
               /\ faults' = faults + 1
               /\ calls' = Append(calls, Call("abortIfNotClosed", FALSE))
               /\ openSessions' = Released(openSessions)
       ELSE UNCHANGED <<calls, openSessions, faults>>
    /\ testSummary' = PushError(testSummary,
           ErrorMsg("Failed to establish baseline for", urls[idx].url, error))
    /\ pc' = "eb_return"
    /\ UNCHANGED <<readOutcome, report, otherPrograms, apiKey, files, page, freshPages, testNo, failedTests, urls,
                   idx, eyesOpened, localPage, result, error, log>>

\* establishBaseline returns; the loop moves to the next entry.
EB_Return ==
    /\ pc = "eb_return"
    /\ log' = Append(log, [fn |-> "establishBaseline", entry |-> urls[idx],
                           calls |-> calls])
    /\ idx' = idx + 1
    /\ pc' = "step3loop"
    /\ eyesOpened' = FALSE /\ localPage' = "shared" /\ error' = NoValue
    /\ calls' = <<>>
    /\ UNCHANGED <<readOutcome, report, otherPrograms, apiKey, files, testSummary, page, freshPages, openSessions,
                   testNo, failedTests, urls, result, faults>>

\* ---- Step 4 and performEyesComparison ------------------------------------
\* Variant of Step4: the target file is read whether or not the key is set.
Step4_NoKeyGuard ==
    /\ pc = "test" /\ testNo = 4
    /\ IF FALSE
       THEN /\ EndTest(FALSE)
            /\ UNCHANGED <<testSummary, urls, idx, faults, readOutcome>>
       ELSE \E parserThrows \in BOOLEAN :
              LET r == readCsvFile(files[csvFiles[2]], parserThrows)
              IN /\ parserThrows => CanFault /\ r.settled = "rejected"
                 /\ faults' = IF parserThrows THEN faults + 1 ELSE faults
                 /\ readOutcome' = [readOutcome EXCEPT ![csvFiles[2]] = r.settled]
                 /\ CASE r.settled = "never" ->
                           /\ EndTest(TRUE)
                           /\ UNCHANGED <<testSummary, urls, idx>>
                      [] r.settled = "rejected" ->
                           /\ testSummary' = PushError(testSummary,
                                  ErrorMsg("Failed to perform visual comparison", "", "parse error"))
                           /\ EndTest(TRUE)
                           /\ UNCHANGED <<urls, idx>>
                      [] r.settled = "resolved" ->
                           /\ urls' = r.rows
                           /\ idx' = 1
                           /\ pc' = "step4loop"
                           /\ UNCHANGED <<testSummary, testNo, failedTests>>
    /\ UNCHANGED <<report, otherPrograms, apiKey, files, page, freshPages, openSessions, eyesOpened,
                   localPage, result, error, calls, log>>

\* Step 4 up to the loop: skip without a key, read the target file.
Step4 ==
    /\ pc = "test" /\ testNo = 4
    /\ IF ~apiKey
       THEN /\ EndTest(FALSE)
            /\ UNCHANGED <<testSummary, urls, idx, faults, readOutcome>>
       ELSE \E parserThrows \in BOOLEAN :
              LET r == readCsvFile(files[csvFiles[2]], parserThrows)
              IN /\ parserThrows => CanFault /\ r.settled = "rejected"
                 /\ faults' = IF parserThrows THEN faults + 1 ELSE faults
                 /\ readOutcome' = [readOutcome EXCEPT ![csvFiles[2]] = r.settled]
                 /\ CASE r.settled = "never" ->
                           /\ EndTest(TRUE)
                           /\ UNCHANGED <<testSummary, urls, idx>>
                      [] r.settled = "rejected" ->
                           /\ testSummary' = PushError(testSummary,
                                  ErrorMsg("Failed to perform visual comparison", "", "parse error"))
                           /\ EndTest(TRUE)
                           /\ UNCHANGED <<urls, idx>>
                      [] r.settled = "resolved" ->
                           /\ urls' = r.rows
                           /\ idx' = 1
                           /\ pc' = "step4loop"
                           /\ UNCHANGED <<testSummary, testNo, failedTests>>
    /\ UNCHANGED <<report, otherPrograms, apiKey, files, page, freshPages, openSessions, eyesOpened,
                   localPage, result, error, calls, log>>

\* Variant of Step4Done: the test function throws at the end of the loop when
\* a comparison was counted as failed.
Step4Done_ThrowsOnFailures ==
    /\ pc = "step4loop" /\ idx > Len(urls)
    /\ EndTest(testSummary.failedComparisons > 0)
    /\ urls' = <<>> /\ idx' = 1
    /\ UNCHANGED <<readOutcome, report, otherPrograms, apiKey, files, testSummary, page,
                   freshPages, openSessions, eyesOpened, localPage, result,
                   error, calls, log, faults>>

\* The loop of Step 4 is exhausted: the test function returns.
Step4Done ==
    /\ pc = "step4loop" /\ idx > Len(urls)
    /\ EndTest(FALSE)
    /\ urls' = <<>> /\ idx' = 1
    /\ UNCHANGED <<readOutcome, report, otherPrograms, apiKey, files, testSummary, page, freshPages, openSessions,
                   eyesOpened, localPage, result, error, calls, log, faults>>

\* Variant of PEC_Acquire: the shared page is used without asking whether
\* it is closed.
PEC_Acquire_ReusesClosed ==
    /\ pc = "step4loop" /\ idx <= Len(urls)
    /\ eyesOpened' = FALSE
    /\ result' = NewResult(urls[idx])
    /\ error' = NoValue
    /\ localPage' = "shared"
    /\ calls' = <<>>
    /\ pc' = "pec_open"
    /\ UNCHANGED <<readOutcome, report, otherPrograms, apiKey, files, testSummary, page,
                   freshPages, faults, openSessions, testNo, failedTests,
                   urls, idx, log>>

\* performEyesComparison, entry and page acquisition: the result starts as
\* Failed with zero counts; the shared page is used when it is open,
\* otherwise a fresh page is opened and given the viewport.
PEC_Acquire ==
    /\ pc = "step4loop" /\ idx <= Len(urls)
    /\ eyesOpened' = FALSE
    /\ result' = NewResult(urls[idx])
    /\ error' = NoValue
    /\ IF page = "open"
       THEN /\ localPage' = "shared"
            /\ calls' = <<>>
            /\ pc' = "pec_open"
            /\ UNCHANGED <<freshPages, faults>>
       ELSE \/ /\ localPage' = "fresh"
               /\ freshPages' = freshPages + 1
               /\ calls' = <<Call("newPage", TRUE), Call("setViewportSize", TRUE)>>
               /\ pc' = "pec_open"
               /\ UNCHANGED faults
            \/ /\ CanFault
               /\ faults' = faults + 1
               /\ localPage' = "shared"
               /\ calls' = <<Call("newPage", FALSE)>>
               /\ error' = "newPage failed"
               /\ pc' = "pec_catch"
               /\ UNCHANGED freshPages
    /\ UNCHANGED <<readOutcome, report, otherPrograms, apiKey, files, testSummary, page, openSessions, testNo,
                   failedTests, urls, idx, log>>

\* Variant of PEC_Open: a failing eyes.open is ignored and the helper goes
\* on to the navigation.
PEC_Open_IgnoresFailure ==
    /\ pc = "pec_open"
    /\ \/ /\ openSessions' = openSessions + 1
          /\ eyesOpened' = TRUE
          /\ calls' = Append(calls, Call("open", TRUE))
          /\ UNCHANGED faults
       \/ /\ CanFault
          /\ faults' = faults + 1
          /\ calls' = Append(calls, Call("open", FALSE))
          /\ UNCHANGED <<openSessions, eyesOpened>>
    /\ pc' = "pec_goto"
    /\ UNCHANGED <<readOutcome, report, otherPrograms, apiKey, files, testSummary, page,
                   freshPages, testNo, failedTests, urls, idx, localPage,
                   result, error, log>>

\* Variant of PEC_Open: eyesOpened is set before eyes.open is awaited.
PEC_Open_MarksBeforeOpen ==
    /\ pc = "pec_open"
    /\ eyesOpened' = TRUE
    /\ \/ /\ openSessions' = openSessions + 1
          /\ calls' = Append(calls, Call("open", TRUE))
          /\ pc' = "pec_goto"
          /\ UNCHANGED <<error, faults>>
       \/ /\ CanFault
          /\ faults' = faults + 1
          /\ calls' = Append(calls, Call("open", FALSE))
          /\ error' = "open failed"
          /\ pc' = "pec_catch"
          /\ UNCHANGED openSessions
    /\ UNCHANGED <<readOutcome, report, otherPrograms, apiKey, files, testSummary, page, freshPages, testNo,
                   failedTests, urls, idx, localPage, result, log>>

\* eyes.open, then eyesOpened = true.
PEC_Open ==
    /\ pc = "pec_open"
    /\ \/ /\ openSessions' = openSessions + 1
          /\ eyesOpened' = TRUE
          /\ calls' = Append(calls, Call("open", TRUE))
          /\ pc' = "pec_goto"
          /\ UNCHANGED <<error, faults>>
       \/ /\ CanFault
          /\ faults' = faults + 1
          /\ calls' = Append(calls, Call("open", FALSE))
          /\ error' = "open failed"
          /\ pc' = "pec_catch"
          /\ UNCHANGED <<openSessions, eyesOpened>>
    /\ UNCHANGED <<readOutcome, report, otherPrograms, apiKey, files, testSummary, page, freshPages, testNo,
                   failedTests, urls, idx, localPage, result, log>>

\* localPage.goto with networkidle and the timeout, then waitForTimeout.
\* A navigation that throws may have lost the page (crashed or closed).
PEC_Goto ==
    /\ pc = "pec_goto"
    /\ \/ /\ calls' = calls \o <<Call("goto", TRUE), Call("waitForTimeout", TRUE)>>
          /\ pc' = "pec_check"
          /\ UNCHANGED <<error, faults, page, localPage, freshPages>>
       \/ /\ CanFault
          /\ faults' = faults + 1
          /\ calls' = Append(calls, Call("goto", FALSE))
          /\ error' = "Timeout"
          /\ pc' = "pec_catch"
          /\ \E lost \in BOOLEAN :
               IF ~lost THEN UNCHANGED <<page, localPage, freshPages>>
               ELSE IF localPage = "shared"
               THEN page' = "closed" /\ UNCHANGED <<localPage, freshPages>>
               ELSE /\ localPage' = "closed"
                    /\ freshPages' = freshPages - 1
                    /\ UNCHANGED page
    /\ UNCHANGED <<readOutcome, report, otherPrograms, apiKey, files, testSummary, openSessions, testNo, failedTests,
                   urls, idx, eyesOpened, result, log>>

\* eyes.check of the full page.
PEC_Check ==
    /\ pc = "pec_check"
    /\ \/ /\ calls' = Append(calls, Call("check", TRUE))
          /\ pc' = "pec_close"
          /\ UNCHANGED <<error, faults>>
       \/ /\ CanFault
          /\ faults' = faults + 1
          /\ calls' = Append(calls, Call("check", FALSE))
          /\ error' = "check failed"
          /\ pc' = "pec_catch"
    /\ UNCHANGED <<readOutcome, report, otherPrograms, apiKey, files, testSummary, page, freshPages, openSessions,
                   testNo, failedTests, urls, idx, eyesOpened, localPage,
                   result, log>>

\* Variant of RecordVerdict: everything but Failed counts as a success.
RecordVerdict_UnresolvedPasses(res, r) ==
    [res EXCEPT !.status = r.status, !.appUrl = r.url, !.stepsInfo = r.steps,
                !.matches = r.matches, !.mismatches = r.mismatches,
                !.missing = r.missing, !.success = (r.status # "Failed")]

\* The result and the summary after close() returned the TestResults r.
RecordVerdict(res, r) ==
    [res EXCEPT !.status = r.status, !.appUrl = r.url, !.stepsInfo = r.steps,
                !.matches = r.matches, !.mismatches = r.mismatches,
                !.missing = r.missing, !.success = (r.status = "Passed")]

\* Variant of UpdateSummary: a negative count is added as zero.
UpdateSummary_ClampsNegative(summary, res) ==
    LET Clamp(n) == IF n < 0 THEN 0 ELSE n
    IN [summary EXCEPT
          !.successfulComparisons = IF res.success THEN @ + 1 ELSE @,
          !.failedComparisons = IF res.success THEN @ ELSE @ + 1,
          !.totalMatches = @ + Clamp(res.matches),
          !.totalMismatches = @ + Clamp(res.mismatches),
          !.totalMissing = @ + Clamp(res.missing)]

\* Variant of UpdateSummary: matches and mismatches go to the wrong totals.
UpdateSummary_SwapsCounts(summary, res) ==
    [summary EXCEPT
       !.successfulComparisons = IF res.success THEN @ + 1 ELSE @,
       !.failedComparisons = IF res.success THEN @ ELSE @ + 1,
       !.totalMatches = @ + res.mismatches,
       !.totalMismatches = @ + res.matches,
       !.totalMissing = @ + res.missing]

UpdateSummary(summary, res) ==
    [summary EXCEPT
       !.successfulComparisons = IF res.success THEN @ + 1 ELSE @,
       !.failedComparisons = IF res.success THEN @ ELSE @ + 1,
       !.totalMatches = @ + res.matches,
       !.totalMismatches = @ + res.mismatches,
       !.totalMissing = @ + res.missing]

\* eyes.close, then eyesOpened = false; with results the verdict is copied
\* and the summary updated, without results an Error is thrown.
PEC_Close ==
    /\ pc = "pec_close"
    /\ \/ \E r \in RemoteResults :
            /\ openSessions' = openSessions - 1
            /\ eyesOpened' = FALSE
            /\ calls' = Append(calls, CallRet("close", r))
            /\ result' = RecordVerdict(result, r)
            /\ testSummary' = UpdateSummary(testSummary, RecordVerdict(result, r))
            /\ pc' = "pec_return"
            /\ UNCHANGED <<error, faults>>
       \/ /\ openSessions' = openSessions - 1
          /\ eyesOpened' = FALSE
          /\ calls' = Append(calls, Call("close", TRUE))
          /\ error' = "No results returned from Eyes"
          /\ pc' = "pec_catch"
          /\ UNCHANGED <<result, testSummary, faults>>
       \/ /\ CanFault
          /\ faults' = faults + 1
          /\ calls' = Append(calls, Call("close", FALSE))
          /\ error' = "close failed"
          /\ pc' = "pec_catch"
          /\ UNCHANGED <<openSessions, eyesOpened, result, testSummary>>
    /\ UNCHANGED <<readOutcome, report, otherPrograms, apiKey, files, page, freshPages, testNo, failedTests, urls,
                   idx, localPage, log>>

\* Variant of RecordError: the message is not stored in the result.
RecordError_NoMessage(res, err) == [res EXCEPT !.success = FALSE]

\* Variant of CountError: the failed entry is not counted.
CountError_NoIncrement(summary, urlEntry, err) ==
    PushError(summary, ErrorMsg("Failed Eyes comparison for", urlEntry.url, err))

\* The result and the summary after the catch block recorded the error.
RecordError(res, err) == [res EXCEPT !.error = err, !.success = FALSE]

CountError(summary, urlEntry, err) ==
    PushError([summary EXCEPT !.failedComparisons = @ + 1],
              ErrorMsg("Failed Eyes comparison for", urlEntry.url, err))

\* Variant of PEC_Catch: the error of a failing abortIfNotClosed replaces the
\* error that brought control to the catch block.
PEC_Catch_AbortMasks ==
    /\ pc = "pec_catch"
    /\ IF eyesOpened
       THEN \/ /\ calls' = Append(calls, Call("abortIfNotClosed", TRUE))
               /\ openSessions' = Released(openSessions)
               /\ result' = RecordError(result, error)
               /\ testSummary' = CountError(testSummary, urls[idx], error)
               /\ UNCHANGED faults
            \/ /\ CanFault
               /\ faults' = faults + 1
               /\ calls' = Append(calls, Call("abortIfNotClosed", FALSE))
               /\ openSessions' = Released(openSessions)
               /\ result' = RecordError(result, "abort failed")
               /\ testSummary' = CountError(testSummary, urls[idx], "abort failed")
       ELSE /\ result' = RecordError(result, error)
            /\ testSummary' = CountError(testSummary, urls[idx], error)
            /\ UNCHANGED <<calls, openSessions, faults>>
    /\ pc' = "pec_return"
    /\ UNCHANGED <<readOutcome, report, otherPrograms, apiKey, files, page, freshPages,
                   testNo, failedTests, urls, idx, eyesOpened, localPage,
                   error, log>>

\* Variant of PEC_Catch: after the cleanup the error is thrown again, into
\* the catch of Step 4, which pushes its message and fails the test.
PEC_Catch_Rethrows ==
    /\ pc = "pec_catch"
    /\ IF eyesOpened
       THEN \/ /\ calls' = Append(calls, Call("abortIfNotClosed", TRUE))
               /\ openSessions' = Released(openSessions)
               /\ UNCHANGED faults
            \/ /\ CanFault
               /\ faults' = faults + 1
               /\ calls' = Append(calls, Call("abortIfNotClosed", FALSE))
               /\ openSessions' = Released(openSessions)
       ELSE UNCHANGED <<calls, openSessions, faults>>
    /\ result' = RecordError(result, error)
    /\ testSummary' = PushError(CountError(testSummary, urls[idx], error),
           ErrorMsg("Failed to perform visual comparison", "", error))
    /\ EndTest(TRUE)
    /\ UNCHANGED <<readOutcome, report, otherPrograms, apiKey, files, page, freshPages, urls, idx, eyesOpened,
                   localPage, error, log>>

\* The catch block: abort the session if it is marked open (an abort that
\* throws is only logged), record the error in the result, count the entry
\* as failed and push the message to the summary's errors.
PEC_Catch ==
    /\ pc = "pec_catch"
    /\ IF eyesOpened
       THEN \/ /\ calls' = Append(calls, Call("abortIfNotClosed", TRUE))
               /\ openSessions' = Released(openSessions)
               /\ UNCHANGED faults
            \/ /\ CanFault
               /\ faults' = faults + 1
               /\ calls' = Append(calls, Call("abortIfNotClosed", FALSE))
               /\ openSessions' = Released(openSessions)
       ELSE UNCHANGED <<calls, openSessions, faults>>
    /\ result' = RecordError(result, error)
    /\ testSummary' = CountError(testSummary, urls[idx], error)
    /\ pc' = "pec_return"
    /\ UNCHANGED <<readOutcome, report, otherPrograms, apiKey, files, page, freshPages, testNo, failedTests, urls,
                   idx, eyesOpened, localPage, error, log>>

\* Variant of PushResult: results of entries that failed locally are dropped.
PushResult_SkipsErrored(summary, res) ==
    IF res.error # NoValue THEN summary
    ELSE [summary EXCEPT !.eyesResults = Append(@, res)]

\* Step 4's push of the returned result.
PushResult(summary, res) == [summary EXCEPT !.eyesResults = Append(@, res)]

\* performEyesComparison returns the result; Step 4 pushes it to
\* eyesResults and the loop moves to the next entry.
PEC_Return ==
    /\ pc = "pec_return"
    /\ testSummary' = PushResult(testSummary, result)
    /\ log' = Append(log, [fn |-> "performEyesComparison", entry |-> urls[idx],
                           calls |-> calls])
    /\ idx' = idx + 1
    /\ pc' = "step4loop"
    /\ eyesOpened' = FALSE /\ localPage' = "shared" /\ error' = NoValue
    /\ calls' = <<>>
    /\ UNCHANGED <<readOutcome, report, otherPrograms, apiKey, files, page, freshPages, openSessions, testNo,
                   failedTests, urls, result, faults>>

\* ---- afterAll -----------------------------------------------------------
\* afterAll: close the shared page if it is still open, close the browser
\* (and with it every page), then generate the report.  page.close and
\* browser.close are awaited outside any try: when one throws, the hook
\* fails there.  Inside generateSummaryReport a failing writeFile is caught
\* and logged.
AfterAll ==
    /\ pc = "afterAll"
    /\ pc' = "done"
    /\ \/ /\ page' = IF page = "undefined" THEN page ELSE "closed"
          /\ freshPages' = 0
          /\ \/ /\ report' = [generated |-> TRUE, saved |-> TRUE,
                              content |-> RenderReport(testSummary)]
                /\ UNCHANGED faults
             \/ /\ CanFault
                /\ faults' = faults + 1
                /\ report' = [generated |-> TRUE, saved |-> FALSE,
                              content |-> RenderReport(testSummary)]
       \/ /\ CanFault /\ page = "open"
          /\ faults' = faults + 1
          /\ UNCHANGED <<page, freshPages, report>>
       \/ /\ CanFault
          /\ faults' = faults + 1
          /\ page' = IF page = "open" THEN "closed" ELSE page
          /\ UNCHANGED <<freshPages, report>>
    /\ UNCHANGED <<readOutcome, otherPrograms, apiKey, files, testSummary, openSessions,
                   testNo, failedTests, locals, log>>

Next ==
    \/ BeforeEach
    \/ Step1
    \/ Step2
    \/ Step3 \/ Step3Done
    \/ EB_Acquire \/ EB_Open \/ EB_Goto \/ EB_Check \/ EB_Close
    \/ EB_Catch \/ EB_Return
    \/ Step4 \/ Step4Done
    \/ PEC_Acquire \/ PEC_Open \/ PEC_Goto \/ PEC_Check \/ PEC_Close
    \/ PEC_Catch \/ PEC_Return
    \/ AfterAll

Spec == Init /\ [][Next]_vars

\* ---- Vocabulary of the properties ----------------------------------------
\* The entries Step 4 reads from the target file.
TargetEntries == ValidRows(files["target"].rows)
SourceEntries == ValidRows(files["source"].rows)

Results == testSummary.eyesResults

IsComparison(e) == e.fn = "performEyesComparison"
IsBaseline(e) == e.fn = "establishBaseline"
ComparisonLog == SelectSeq(log, IsComparison)
BaselineLog == SelectSeq(log, IsBaseline)

HasError(r) == r.error # NoValue

\* Step 4 had the key, its read of the target file resolved, and its loop
\* has run to the end.
ParserRejectedStep4 ==
    \E i \in DOMAIN testSummary.errors :
        /\ testSummary.errors[i].kind = "Failed to perform visual comparison"
        /\ testSummary.errors[i].err = "parse error"
Step4ReadResolved == apiKey /\ files["target"].exists /\ ~ParserRejectedStep4
Step4Over == testNo > 4 /\ Step4ReadResolved

\* Calls of one entry.
Returned(cs, op) == \E i \in DOMAIN cs : cs[i].op = op /\ cs[i].ok
Threw(cs, ops) == \E i \in DOMAIN cs : cs[i].op \in ops /\ ~cs[i].ok
Count(cs, op) == Cardinality({i \in DOMAIN cs : cs[i].op = op})
StepOps == {"newPage", "setViewportSize", "open", "goto", "waitForTimeout",
            "check", "close"}
AfterOpenOps == {"goto", "waitForTimeout", "check", "close"}
EntryFailed(cs) ==
    \/ Threw(cs, StepOps)
    \/ \E i \in DOMAIN cs : cs[i].op = "close" /\ cs[i].ok /\ cs[i].ret = NoResults

RECURSIVE SumOf(_, _)
SumOf(rs, field) ==
    IF rs = <<>> THEN 0 ELSE rs[1][field] + SumOf(Tail(rs), field)

NumPassed == Cardinality({i \in DOMAIN Results : Results[i].status = "Passed"})

\* Between two entries, before the first or after the last: no helper is
\* in progress.
BetweenEntries == pc \in {"beforeEach", "test", "step3loop", "step4loop",
                          "afterAll", "done"}

\* ---- C1 -------------------------------------------------------------------
\* C1: the Step 4 loop appends one result per entry read from the target
\* file, in input order: the i-th result carries the url and name of the
\* i-th entry, there are never more results than entries, and once the loop
\* is over there are exactly as many.
C1_ResultsInInputOrder ==
    /\ Len(Results) <= Len(TargetEntries)
    /\ \A i \in DOMAIN Results :
         /\ Results[i].url = TargetEntries[i].url
         /\ Results[i].testName = TargetEntries[i].name
    /\ Step4Over => Len(Results) = Len(TargetEntries)

C1_Witness ==
    /\ Step4Over
    /\ Len(Results) = 2
    /\ Results[1].url # Results[2].url
    /\ HasError(Results[1])

\* ---- C2 -------------------------------------------------------------------
\* The message of the exception a failed step throws.
ThrownBy(op) ==
    CASE op = "newPage" -> "newPage failed"
      [] op = "open" -> "open failed"
      [] op = "goto" -> "Timeout"
      [] op = "check" -> "check failed"
      [] op = "close" -> "close failed"
      [] OTHER -> "No results returned from Eyes"

FailedOp(cs) ==
    IF Threw(cs, StepOps)
    THEN (CHOOSE i \in DOMAIN cs : cs[i].op \in StepOps /\ ~cs[i].ok) 
    ELSE 0

\* What an entry's result must be, given only that entry and the outcomes of
\* its own collaborator calls.
ExpectedResult(entry, cs) ==
    LET base == [url |-> entry.url, testName |-> entry.name, status |-> "Failed",
                 appUrl |-> NoValue, stepsInfo |-> 0, matches |-> 0,
                 mismatches |-> 0, missing |-> 0, success |-> FALSE,
                 error |-> NoValue]
    IN IF EntryFailed(cs)
       THEN [base EXCEPT !.error = IF FailedOp(cs) = 0
                                   THEN "No results returned from Eyes"
                                   ELSE ThrownBy(cs[FailedOp(cs)].op)]
       ELSE LET r == (cs[CHOOSE i \in DOMAIN cs : cs[i].op = "close"]).ret
            IN [base EXCEPT !.status = r.status, !.appUrl = r.url,
                            !.stepsInfo = r.steps, !.matches = r.matches,
                            !.mismatches = r.mismatches, !.missing = r.missing,
                            !.success = (r.status = "Passed")]

\* Some entry of the batch failed locally.
AnyEntryFailed ==
    \E k \in DOMAIN testSummary.errors :
        testSummary.errors[k].kind = "Failed Eyes comparison for"

\* C2: failure isolation.  When an entry of the batch failed at any step,
\* every entry is still attempted by the time the loop is over, and the
\* result recorded for each later entry is what its own calls determine.
C2_FailureIsolation ==
    /\ (AnyEntryFailed /\ Step4Over) =>
          /\ Len(ComparisonLog) = Len(TargetEntries)
          /\ Len(Results) = Len(TargetEntries)
    /\ \A i \in DOMAIN ComparisonLog :
         EntryFailed(ComparisonLog[i].calls) =>
            \A j \in DOMAIN Results :
               j > i => /\ j <= Len(ComparisonLog)
                        /\ ComparisonLog[j].entry = TargetEntries[j]
                        /\ Results[j] = ExpectedResult(TargetEntries[j],
                                                       ComparisonLog[j].calls)

C2_Witness ==
    /\ Step4Over
    /\ Len(Results) = 2
    /\ EntryFailed(ComparisonLog[1].calls)
    /\ Results[2].status = "Passed"
    /\ Results[2].matches = 1

\* ---- C3 -------------------------------------------------------------------
\* C3: cleanup discipline, for every finished entry of either helper:
\* abortIfNotClosed is invoked exactly once if open returned and a later
\* step threw, never if close returned, and never if open did not return.
C3_CleanupDiscipline ==
    \A i \in DOMAIN log :
        LET cs == log[i].calls
        IN /\ (Returned(cs, "open") /\ Threw(cs, AfterOpenOps))
                 => Count(cs, "abortIfNotClosed") = 1
           /\ Returned(cs, "close") => Count(cs, "abortIfNotClosed") = 0
           /\ ~Returned(cs, "open") => Count(cs, "abortIfNotClosed") = 0

C3_Witness ==
    /\ \E i \in DOMAIN log :
         /\ IsComparison(log[i])
         /\ Returned(log[i].calls, "open") /\ Threw(log[i].calls, {"close"})
         /\ Count(log[i].calls, "abortIfNotClosed") = 1
    /\ \E i \in DOMAIN log :
         /\ IsBaseline(log[i])
         /\ Threw(log[i].calls, {"open"})

ZeroCounts(r) == r.matches = 0 /\ r.mismatches = 0 /\ r.missing = 0

C6_NoVerdictWithError ==
    \A i \in DOMAIN Results :
        LET r == Results[i]
        IN /\ (r.status = "Passed" \/ r.success) => ~HasError(r)
           /\ r.appUrl # NoValue =>
                /\ i <= Len(ComparisonLog)
                /\ Returned(ComparisonLog[i].calls, "open")
                /\ Returned(ComparisonLog[i].calls, "close")
                /\ ~HasError(r)

C6_Witness ==
    \E i \in DOMAIN Results, j \in DOMAIN Results :
        /\ Results[i].status = "Passed" /\ Results[i].appUrl # NoValue
        /\ HasError(Results[j]) /\ Results[j].appUrl = NoValue
        /\ Returned(ComparisonLog[j].calls, "close")

\* ---- C7 -------------------------------------------------------------------
\* C7: after the batch, successfulComparisons + failedComparisons equals
\* totalUrls, which equals the number of results produced.
C7_TotalEqualsResults ==
    pc = "done" =>
        /\ testSummary.successfulComparisons + testSummary.failedComparisons
             = testSummary.totalUrls
        /\ testSummary.totalUrls = Len(Results)

\* ---- C8 -------------------------------------------------------------------
\* C8: whenever no entry is in progress, totalMatches, totalMismatches and
\* totalMissing are the sums of the fields over the produced results, and a
\* result that errored locally has 0 in each field.
C8_TotalsAreSums ==
    /\ BetweenEntries =>
         /\ testSummary.totalMatches = SumOf(Results, "matches")
         /\ testSummary.totalMismatches = SumOf(Results, "mismatches")
         /\ testSummary.totalMissing = SumOf(Results, "missing")
    /\ \A i \in DOMAIN Results : HasError(Results[i]) => ZeroCounts(Results[i])

C8_Witness ==
    /\ pc = "done"
    /\ Len(Results) = 2
    /\ HasError(Results[1])
    /\ testSummary.totalMatches = 1
    /\ testSummary.totalMismatches = 1
    /\ testSummary.totalMissing = 3

\* ---- C9 -------------------------------------------------------------------
\* C9: whenever no entry is in progress, successfulComparisons is the number
\* of results with status Passed and failedComparisons is the number of
\* results minus that: Failed, Unresolved and locally failed entries all
\* count as failed.
C9_SucceededIsPassed ==
    BetweenEntries =>
        /\ testSummary.successfulComparisons = NumPassed
        /\ testSummary.failedComparisons = Len(Results) - NumPassed
        /\ \A i \in DOMAIN Results : Results[i].success <=> Results[i].status = "Passed"

C9_Witness ==
    /\ pc = "done"
    /\ Len(Results) = 2
    /\ Results[1].status = "Unresolved"
    /\ Results[2].status = "Passed"
    /\ testSummary.successfulComparisons = 1
    /\ testSummary.failedComparisons = 1

\* ---- C10 ------------------------------------------------------------------
Counted == testSummary.successfulComparisons + testSummary.failedComparisons

\* C10: running counters.  No step decreases either counter, a step
\* increments at most one of them and by one, the entry in progress is
\* counted once its close or catch has run and not before, and between
\* entries the sum equals the number of entries processed so far and the
\* number of results emitted; a result is emitted before the next entry
\* starts.
C10_RunningCounters ==
    /\ [](/\ pc = "step4loop" => Counted = idx - 1 /\ Len(Results) = idx - 1
          /\ pc \in {"pec_open", "pec_goto", "pec_check", "pec_close", "pec_catch"}
               => Counted = idx - 1 /\ Len(Results) = idx - 1
          /\ pc = "pec_return" => Counted = idx /\ Len(Results) = idx - 1
          /\ BetweenEntries => Counted = Len(Results))
    /\ [][/\ testSummary'.successfulComparisons >= testSummary.successfulComparisons
          /\ testSummary'.failedComparisons >= testSummary.failedComparisons
          /\ Counted' - Counted \in {0, 1}
          /\ Len(Results') - Len(Results) \in {0, 1}
          /\ Len(Results') > Len(Results) => Counted' = Len(Results')]_vars

C10_Witness ==
    /\ pc = "step4loop"
    /\ idx = 3
    /\ testSummary.successfulComparisons = 1
    /\ testSummary.failedComparisons = 1
    /\ HasError(Results[2])

\* ---- The Entry Reader on its own ------------------------------------------
\* Bound: number of data rows of a CSV file given to readCsvFile.
MaxRows == 3

rowNoUrl == [url |-> "", name |-> "Google"]

\* The files readCsvFile is applied to: absent, zero bytes, or a header and
\* up to MaxRows rows, each complete or lacking one field.
ReaderRows == {rowExample, rowGoogle, rowNoName, rowNoUrl}
ReaderFiles ==
    {MissingFile, EmptyFile} \cup
    UNION {{CsvFile(r) : r \in [1..n -> ReaderRows]} : n \in 0..MaxRows}

InitReader ==
    /\ apiKey = TRUE
    /\ \E f \in ReaderFiles : files = [source |-> MissingFile, target |-> f]
    /\ testSummary = InitSummary
    /\ page = "open"
    /\ freshPages = 0
    /\ openSessions = 0
    /\ testNo = 4
    /\ pc = "read"
    /\ failedTests = {}
    /\ urls = <<>>
    /\ idx = 1
    /\ eyesOpened = FALSE
    /\ localPage = "shared"
    /\ result = NoResult
    /\ error = NoValue
    /\ calls = <<>>
    /\ log = <<>>
    /\ faults = 0
    /\ readOutcome = [f \in {"source", "target"} |-> "none"]
    /\ report = NoReport
    /\ suite = "batch"
    /\ NoOtherProgram

\* One call of readCsvFile on the target file, awaited to its end.
ReadCsv ==
    /\ pc = "read"
    /\ \E parserThrows \in BOOLEAN :
         LET r == readCsvFile(files["target"], parserThrows)
         IN /\ parserThrows => r.settled = "rejected"
            /\ faults' = IF parserThrows THEN faults + 1 ELSE faults
            /\ readOutcome' = [readOutcome EXCEPT !["target"] = r.settled]
            /\ urls' = r.rows
    /\ pc' = "readDone"
    /\ UNCHANGED <<report, otherPrograms, apiKey, files, testSummary, page, freshPages,
                   openSessions, testNo, failedTests, idx, eyesOpened,
                   localPage, result, error, calls, log>>

NextReader == ReadCsv

SpecReader == InitReader /\ [][NextReader]_vars

\* ---- C11 ------------------------------------------------------------------
\* The indices of the rows that have both fields, and the k-th of them.
CompleteRows(rows) ==
    {i \in DOMAIN rows : rows[i].url # "" /\ rows[i].name # ""}
KthOf(S, k) == CHOOSE i \in S : Cardinality({j \in S : j <= i}) = k

\* C11: readCsvFile resolves with exactly the rows that have a non-empty
\* url and a non-empty name, in file order and without de-duplication; a
\* row lacking a field is skipped and never fails the read (only a missing
\* file or a parser error keeps it from resolving), and a file without a
\* valid row yields the empty sequence.
C11_ReaderKeepsCompleteRows ==
    pc = "readDone" =>
        LET rows == files["target"].rows
            keep == CompleteRows(rows)
        IN /\ readOutcome["target"] = "resolved"
                <=> (files["target"].exists /\ faults = 0)
           /\ readOutcome["target"] = "resolved" =>
                /\ Len(urls) = Cardinality(keep)
                /\ \A k \in DOMAIN urls : urls[k] = rows[KthOf(keep, k)]
           /\ readOutcome["target"] # "resolved" => urls = <<>>

C11_Witness ==
    /\ pc = "readDone"
    /\ readOutcome["target"] = "resolved"
    /\ files["target"].rows = <<rowExample, rowNoUrl, rowExample>>
    /\ urls = <<rowExample, rowExample>>

\* ---- C12 ------------------------------------------------------------------
StepLevelError(kind) ==
    \E i \in DOMAIN testSummary.errors : testSummary.errors[i].kind = kind

\* C12: when the target CSV file is absent at the time Step 4 reads it, the
\* read fails with an error (the promise rejects), Step 4 passes the failure
\* on to its caller through its catch block, which records it, and no entry
\* is attempted: no session opened, no navigation, no result.
C12_MissingSourceRejects ==
    (readOutcome["target"] # "none" /\ ~files["target"].exists) =>
        /\ readOutcome["target"] = "rejected"
        /\ StepLevelError("Failed to perform visual comparison")
        /\ 4 \in failedTests
        /\ ComparisonLog = <<>>
        /\ Results = <<>>

C14_EntryErrorsBecomeData ==
    LET clog == ComparisonLog
    IN /\ 4 \in failedTests => readOutcome["target"] \in {"never", "rejected"}
       /\ BetweenEntries => Len(Results) = Len(clog)
       /\ \A i \in DOMAIN clog :
            (i \in DOMAIN Results /\ EntryFailed(clog[i].calls)) =>
                /\ HasError(Results[i])
                /\ Results[i].error =
                     ExpectedResult(clog[i].entry, clog[i].calls).error

\* Step 4 is over and passed although one of its entries failed.
C14_Witness ==
    /\ testNo > 4
    /\ readOutcome["target"] = "resolved"
    /\ 4 \notin failedTests
    /\ \E i \in DOMAIN Results : Results[i].error = "Timeout"
    /\ \E i \in DOMAIN Results : Results[i].error = "No results returned from Eyes"

\* ---- C15 ------------------------------------------------------------------
AbortThrew(cs) == Threw(cs, {"abortIfNotClosed"})

\* C15: secondary abort failure.  For an entry whose abortIfNotClosed threw
\* during the cleanup, the exception goes no further (a result is returned
\* and Step 4 does not fail), and the result is the one the entry's own
\* calls determine when the abort is left out of account: status Failed,
\* zero counts, and the message of the original failure, which is also the
\* message pushed to the errors list for that entry's url.
C15_AbortFailureDoesNotMask ==
    LET clog == ComparisonLog
    IN \A i \in DOMAIN clog :
        AbortThrew(clog[i].calls) =>
            LET e == clog[i]
                orig == ThrownBy(IF FailedOp(e.calls) = 0 THEN "none"
                                 ELSE e.calls[FailedOp(e.calls)].op)
            IN /\ 4 \notin failedTests
               /\ i \in DOMAIN Results
               /\ Results[i] = ExpectedResult(e.entry, e.calls)
               /\ Results[i].error = orig
               /\ \E k \in DOMAIN testSummary.errors :
                    testSummary.errors[k] =
                        ErrorMsg("Failed Eyes comparison for", e.entry.url, orig)
               /\ \A k \in DOMAIN testSummary.errors :
                    testSummary.errors[k].err # "abort failed"

C15_Witness ==
    \E i \in DOMAIN ComparisonLog :
        /\ AbortThrew(ComparisonLog[i].calls)
        /\ i \in DOMAIN Results
        /\ Results[i].error = "check failed"
        /\ Results[i].status = "Failed"

\* ---- The accumulation on its own ------------------------------------------
\* Bounds: the largest count a TestResults object reports, and the number
\* of results accumulated.
MaxCount == 1
MaxResults == 2

\* TestResults whose counts are any integers from -1 up: the getters'
\* values are used as they come.
AggregateInputs ==
    [status : {"Passed", "Failed"}, url : {"dash/1"}, steps : {1},
     matches : -1..MaxCount, mismatches : -1..MaxCount, missing : -1..MaxCount]

InitAggregate ==
    /\ apiKey = TRUE
    /\ files = [source |-> CsvFile(sampleContent), target |-> CsvFile(sampleContent)]
    /\ testSummary = InitSummary
    /\ page = "open"
    /\ freshPages = 0
    /\ openSessions = 0
    /\ testNo = 4
    /\ pc = "aggregate"
    /\ failedTests = {}
    /\ urls = <<>>
    /\ idx = 1
    /\ eyesOpened = FALSE
    /\ localPage = "shared"
    /\ result = NoResult
    /\ error = NoValue
    /\ calls = <<>>
    /\ log = <<>>
    /\ faults = 0
    /\ readOutcome = [f \in {"source", "target"} |-> "none"]
    /\ report = NoReport
    /\ suite = "batch"
    /\ NoOtherProgram

\* Lines 350-368 applied to one TestResults object: the verdict is copied
\* into a fresh result and the summary updated with it.
Accumulate ==
    /\ pc = "aggregate" /\ idx <= MaxResults
    /\ \E r \in AggregateInputs :
         /\ result' = RecordVerdict(NewResult(rowExample), r)
         /\ testSummary' = UpdateSummary(testSummary, result')
    /\ idx' = idx + 1
    /\ UNCHANGED <<readOutcome, report, otherPrograms, apiKey, files, page, freshPages,
                   openSessions, testNo, pc, failedTests, urls, eyesOpened,
                   localPage, error, calls, log, faults>>

NextAggregate == Accumulate

SpecAggregate == InitAggregate /\ [][NextAggregate]_vars

C17_SuccessRate ==
    report.generated =>
        LET s == report.content.successful
            t == s + report.content.failed
            rate == report.content.successRate
            d == rate.hundredths * t - 10000 * s
        IN /\ s = testSummary.successfulComparisons
           /\ t = Counted
           /\ t = 0 => rate.text = "0" /\ rate.hundredths = 0
           /\ t > 0 => /\ rate.text = "toFixed(2)"
                       /\ 2 * d <= t /\ -2 * d <= t

\* A report was generated after a run without any comparison.
C17_Witness ==
    /\ pc = "done"
    /\ report.generated
    /\ Counted = 0
    /\ report.content.successRate.text = "0"

\* ---- C18 ------------------------------------------------------------------
\* The helper calls that ended in their catch block, in encounter order, and
\* the messages the helpers push.
LocalError(e) ==
    IF IsBaseline(e) THEN Threw(e.calls, StepOps) ELSE EntryFailed(e.calls)
FailedEntries == SelectSeq(log, LocalError)
EntryKinds == {"Failed to establish baseline for", "Failed Eyes comparison for"}
IsEntryError(m) == m.kind \in EntryKinds
EntryErrors == SelectSeq(testSummary.errors, IsEntryError)
RunLevelKinds ==
    {"APPLITOOLS_API_KEY not set", "Failed to create results directory",
     "CSV file is empty", "Failed to validate CSV file",
     "Failed to establish baselines", "Failed to perform visual comparison"}

\* C18 as stated: after the run the errors list consists of one description
\* per entry that raised a local error, in encounter order, and nothing else.
C18_ErrorsAreEntryErrors ==
    pc = "done" =>
        /\ Len(testSummary.errors) = Len(FailedEntries)
        /\ \A k \in DOMAIN testSummary.errors :
             k \in DOMAIN FailedEntries =>
                 testSummary.errors[k].subject = FailedEntries[k].entry.url

\* C18 amended: between entries, and so after the run, the per-entry
\* messages of the errors list are, in encounter order, one for each helper
\* call (baseline or comparison) that raised a local error, naming its url
\* and its failure; every other element of the list is a run-level message
\* (missing key, directory or CSV validation failure, failed step).
C18_OneErrorPerFailedEntry ==
    BetweenEntries =>
      LET errs == EntryErrors
          failed == FailedEntries
      IN
        /\ Len(errs) = Len(failed)
        /\ \A k \in DOMAIN errs :
             LET e == failed[k]
             IN /\ errs[k].subject = e.entry.url
                /\ errs[k].kind =
                     (IF IsBaseline(e) THEN "Failed to establish baseline for"
                      ELSE "Failed Eyes comparison for")
                /\ errs[k].err =
                     ThrownBy(IF FailedOp(e.calls) = 0 THEN "none"
                              ELSE e.calls[FailedOp(e.calls)].op)
        /\ \A k \in DOMAIN testSummary.errors :
             ~IsEntryError(testSummary.errors[k]) =>
                 testSummary.errors[k].kind \in RunLevelKinds

\* Two entries with different urls failed, in a run that also recorded
\* run-level messages.
C18_Witness ==
    /\ pc = "done"
    /\ Len(FailedEntries) = 2
    /\ FailedEntries[1].entry.url # FailedEntries[2].entry.url
    /\ Len(testSummary.errors) > 2

\* ---- C19 ------------------------------------------------------------------
Blocks == report.content.blocks
HasLine(block, label) == \E j \in DOMAIN block : block[j].label = label
LineOf(block, label) == block[CHOOSE j \in DOMAIN block : block[j].label = label]

\* C19 as stated: the report has one block per result, in result order, and
\* the block of a result with an error shows the error and none of the
\* match, mismatch and missing counts.
C19_ErrorInsteadOfCounts ==
    report.generated =>
        /\ Len(Blocks) = Len(Results)
        /\ \A i \in DOMAIN Blocks :
             HasError(Results[i]) =>
                 /\ HasLine(Blocks[i], "Error")
                 /\ ~HasLine(Blocks[i], "Matches")
                 /\ ~HasLine(Blocks[i], "Mismatches")
                 /\ ~HasLine(Blocks[i], "Missing")

\* C19 amended: the report has one block per result, in result order (the
\* i-th block is numbered i and names the i-th result's test and url);
\* every block shows the status and the three counts, which are 0 for a
\* result that errored locally; the Error line is present, next to the
\* counts, exactly when the result has an error message, and the link
\* exactly when it has an appUrl.
C19_BlockPerResult ==
    report.generated =>
        /\ Len(Blocks) = Len(Results)
        /\ \A i \in DOMAIN Blocks :
             LET b == Blocks[i]
                 r == Results[i]
             IN /\ LineOf(b, "###") = Line("###", i, r.testName)
                /\ LineOf(b, "URL").text = r.url
                /\ LineOf(b, "Status").text = r.status
                /\ HasLine(b, "Matches") /\ LineOf(b, "Matches").num = r.matches
                /\ HasLine(b, "Mismatches")
                /\ LineOf(b, "Mismatches").num = r.mismatches
                /\ HasLine(b, "Missing") /\ LineOf(b, "Missing").num = r.missing
                /\ HasLine(b, "Error") <=> HasError(r)
                /\ HasError(r) => /\ LineOf(b, "Error").text = r.error
                                  /\ LineOf(b, "Matches").num = 0
                                  /\ LineOf(b, "Mismatches").num = 0
                                  /\ LineOf(b, "Missing").num = 0
                /\ HasLine(b, "Applitools Results") <=> r.appUrl # NoValue

\* A report with the block of a result that errored after the block of one
\* that has a verdict.
C19_Witness ==
    /\ report.generated
    /\ Len(Blocks) = 2
    /\ ~HasLine(Blocks[1], "Error") /\ HasLine(Blocks[1], "Applitools Results")
    /\ HasLine(Blocks[2], "Error") /\ HasLine(Blocks[2], "Matches")

\* ---- C20 ------------------------------------------------------------------
\* C20: the summary report is generated at the end of every run: once
\* afterAll is over, generateSummaryReport has been reached, whatever
\* failed before it, the closing of the page and the browser included.
C20_ReportAlwaysGenerated == pc = "done" => report.generated

\* ---- C21 ------------------------------------------------------------------
KeyWarnings ==
    Cardinality({i \in DOMAIN testSummary.errors :
                    testSummary.errors[i].kind = "APPLITOOLS_API_KEY not set"})

InOrder(cs) ==
    LET After(op, before) ==
            \A i \in DOMAIN cs :
                cs[i].op = op =>
                    \E j \in 1..(i - 1) : cs[j].op = before /\ cs[j].ok
    IN /\ \A op \in AfterOpenOps \cup {"open"} : Count(cs, op) <= 1
       /\ After("goto", "open")
       /\ After("waitForTimeout", "goto")
       /\ After("check", "waitForTimeout")
       /\ After("check", "open")
       /\ After("close", "check")
       /\ Threw(cs, {"open"}) => Count(cs, "goto") = 0
       /\ \A i \in DOMAIN cs :
            /\ cs[i].op = "goto" =>
                 cs[i].args = Args("networkidle", configTimeout, 0)
            /\ cs[i].op = "waitForTimeout" =>
                 cs[i].args = Args("", settleDelay, 0)
            /\ cs[i].op = "check" =>
                 cs[i].args = Args("Target.window().fully()", 0, 0)

\* C23: within one entry the collaborator calls happen in the order open,
\* goto (networkidle, 60 s timeout), fixed settle delay, full-page check,
\* close: check is called only after open and goto returned, close only
\* after check returned, and no navigation happens when open failed.  It
\* holds of the calls of the entry in progress at every step, and of every
\* entry of the log once the run is over.
C23_CallOrder ==
    /\ InOrder(calls)
    /\ pc = "done" => \A i \in DOMAIN log : InOrder(log[i].calls)

\* A comparison is about to return after all five calls, in order.
C23_Witness ==
    /\ pc = "pec_return"
    /\ Len(calls) = 5
    /\ calls[1].op = "open" /\ calls[2].op = "goto"
    /\ calls[3].op = "waitForTimeout" /\ calls[4].op = "check"
    /\ calls[5].op = "close" /\ calls[5].ok
    /\ calls[2].args.n = configTimeout

\* ---- C24 ------------------------------------------------------------------
AtOpen == pc \in {"eb_open", "pec_open"}

\* C24: page acquisition.  When a helper is about to open its session, the
\* page it will pass is not closed: it is the shared page, open, and nothing
\* was called before; or the shared page is not open and the page is a
\* fresh one, obtained by newPage and given the viewport 1920x1080 before
\* the session is opened.
C24_PageAcquisition ==
    AtOpen =>
        \/ /\ localPage = "shared" /\ page = "open"
           /\ calls = <<>>
        \/ /\ localPage = "fresh" /\ page # "open"
           /\ freshPages >= 1
           /\ calls = <<Call("newPage", TRUE), Call("setViewportSize", TRUE)>>
           /\ calls[2].args = Args("", viewportWidth, viewportHeight)

\* A comparison is about to open its session on a fresh page, the shared
\* page having been lost by an earlier entry.
C24_Witness ==
    /\ pc = "pec_open"
    /\ page = "closed"
    /\ localPage = "fresh"
    /\ calls[2].op = "setViewportSize"
    /\ calls[2].args.n = viewportWidth /\ calls[2].args.m = viewportHeight

\* ---- C26 ------------------------------------------------------------------
\* The pages that are open: the shared one, and the fresh ones the helpers
\* opened and nothing closed.
OpenPages == (IF page = "open" THEN 1 ELSE 0) + freshPages

\* C26: every page opened during the run is closed when afterAll is over,
\* and the number of open pages does not grow with the entries: a helper
\* opens a page only when the shared one is closed, so at most one page is
\* open at a time.
C26_PagesClosed ==
    /\ pc = "done" => OpenPages = 0
    /\ OpenPages <= 1

\* ---- C28 ------------------------------------------------------------------
CsvMessages ==
    Cardinality({i \in DOMAIN testSummary.errors :
                    testSummary.errors[i].kind \in
                        {"CSV file is empty", "Failed to validate CSV file"}})

\* C28: a failure detected by Step 2 appends exactly one message to the
\* errors list before the step fails: once Step 2 is over the list holds
\* one CSV validation message when the step failed and none when it passed.
C28_OneMessagePerFailure ==
    testNo > 2 => CsvMessages = (IF 2 \in failedTests THEN 1 ELSE 0)

\* ---- The runtime configuration module --------------------------------------
\* Bound: number of command-line arguments after the script name.
MaxArgs == 2

\* Command-line arguments, each as its pieces between '=' signs:
\* --apiKey=ck, --apiKey=c=k, --apiKey= (no value), --apiKey and a word.
ArgSet ==
    { <<"--apiKey", "ck">>, <<"--apiKey", "c", "k">>, <<"--apiKey", "">>,
      <<"--apiKey">>, <<"npm">> }
ArgvSet == UNION {[1..n -> ArgSet] : n \in 0..MaxArgs}

\* Values of process.env.APPLITOOLS_API_KEY: unset, empty, a key.
EnvKeys == {Null, Str(<<"">>), Str(<<"ek">>)}

\* Objects a caller can pass as a configuration: whether the object was
\* passed at all, whether it has the apiKey property, and the values.
ConfigInputs ==
    [isNull : {FALSE}, hasApiKey : {TRUE},
     apiKey : {Null, Str(<<"">>), Str(<<"rk">>)},
     appName : {Null, Str(<<"App">>)}]
OverrideInputs ==
    {NullConfig} \cup
    [isNull : {FALSE}, hasApiKey : {FALSE}, apiKey : {Null}, appName : {Null}] \cup
    [isNull : {FALSE}, hasApiKey : {TRUE},
     apiKey : {Null, Str(<<"">>), Str(<<"ok">>)}, appName : {Null}]

\* arg.startsWith('--apiKey=')
IsApiKeyArg(arg) == Len(arg) >= 2 /\ arg[1] = "--apiKey"

\* argv.find(arg => arg.startsWith('--apiKey='))?.split('=')[1]
CmdLineApiKey(argv) ==
    IF \E i \in DOMAIN argv : IsApiKeyArg(argv[i])
    THEN LET first == CHOOSE i \in DOMAIN argv :
                          /\ IsApiKeyArg(argv[i])
                          /\ \A j \in 1..(i - 1) : ~IsApiKeyArg(argv[j])
         IN Str(<<argv[first][2]>>)
    ELSE Null

\* getApiKeyFromAnywhere: runtime configuration, then command line, then
\* environment, each used when its value is truthy.
getApiKeyFromAnywhere(config, proc) ==
    IF ~config.isNull /\ JsTruthy(config.apiKey) THEN config.apiKey
    ELSE IF JsTruthy(CmdLineApiKey(proc.argv)) THEN CmdLineApiKey(proc.argv)
    ELSE IF JsTruthy(proc.env) THEN proc.env
    ELSE Null

\* { ...config, ...overrideConfig }.apiKey: the property of the override
\* when it has one, whatever its value, otherwise that of the configuration.
FinalApiKey(config, override) ==
    IF ~override.isNull /\ override.hasApiKey THEN override.apiKey
    ELSE IF ~config.isNull THEN config.apiKey
    ELSE Null

InitRuntime ==
    /\ apiKey = FALSE
    /\ files = [f \in {"source", "target"} |-> MissingFile]
    /\ testSummary = InitSummary
    /\ page = "undefined"
    /\ freshPages = 0
    /\ openSessions = 0
    /\ testNo = 1
    /\ pc = "module"
    /\ failedTests = {}
    /\ urls = <<>>
    /\ idx = 1
    /\ eyesOpened = FALSE
    /\ localPage = "shared"
    /\ result = NoResult
    /\ error = NoValue
    /\ calls = <<>>
    /\ log = <<>>
    /\ faults = 0
    /\ readOutcome = [f \in {"source", "target"} |-> "none"]
    /\ report = NoReport
    /\ suite = "runtime-config"
    /\ runtimeConfig = NullConfig
    /\ \E a \in ArgvSet, e \in EnvKeys :
         process = [argv |-> a, env |-> e, exited |-> FALSE, exitCode |-> 0]
    /\ outcome = NoOutcome
    /\ child = NoChild
    /\ document = LoadedDocument

\* What the batch suite's variables do while the module's functions run.
BatchUnchanged ==
    UNCHANGED <<apiKey, files, testSummary, page, freshPages, openSessions,
                testNo, pc, failedTests, urls, idx, eyesOpened, localPage,
                result, error, calls, log, faults, readOutcome, report, suite>>

\* setApplitoolsConfig(config): throws without an API key, otherwise
\* stores the defaults overridden by the given properties.
setApplitoolsConfig ==
    /\ pc = "module"
    /\ \E config \in ConfigInputs :
         IF ~JsTruthy(config.apiKey)
         THEN /\ outcome' = [NoOutcome EXCEPT !.fn = "setApplitoolsConfig",
                                              !.threw = TRUE,
                                              !.hadConfig = runtimeConfig,
                                              !.override = config]
              /\ UNCHANGED runtimeConfig
         ELSE /\ runtimeConfig' =
                    [config EXCEPT !.appName =
                        IF config.appName.isNull
                        THEN Str(<<"Visual Testing Demo App">>) ELSE @]
              /\ outcome' = [NoOutcome EXCEPT !.fn = "setApplitoolsConfig",
                                              !.hadConfig = runtimeConfig,
                                              !.override = config]
    /\ BatchUnchanged
    /\ UNCHANGED <<process, child, document>>

clearRuntimeConfig ==
    /\ pc = "module"
    /\ runtimeConfig' = NullConfig
    /\ outcome' = [NoOutcome EXCEPT !.fn = "clearRuntimeConfig",
                                    !.hadConfig = runtimeConfig]
    /\ BatchUnchanged
    /\ UNCHANGED <<process, child, document>>

\* A call of getApiKeyFromAnywhere.
GetApiKey ==
    /\ pc = "module"
    /\ outcome' = [NoOutcome EXCEPT
                      !.fn = "getApiKeyFromAnywhere",
                      !.value = getApiKeyFromAnywhere(runtimeConfig, process),
                      !.hadConfig = runtimeConfig]
    /\ BatchUnchanged
    /\ UNCHANGED <<runtimeConfig, process, child, document>>

\* validateApiKeyAvailability: getApiKeyFromAnywhere() !== null
validateApiKeyAvailability ==
    /\ pc = "module"
    /\ outcome' = [NoOutcome EXCEPT
                      !.fn = "validateApiKeyAvailability",
                      !.flag = ~getApiKeyFromAnywhere(runtimeConfig, process).isNull,
                      !.hadConfig = runtimeConfig]
    /\ BatchUnchanged
    /\ UNCHANGED <<runtimeConfig, process, child, document>>

\* createConfiguredEyes(overrideConfig): throws when there is neither a
\* stored configuration nor a truthy apiKey in the override; otherwise
\* returns an Eyes whose configuration got setApiKey only when the merged
\* apiKey is truthy.
createConfiguredEyes ==
    /\ pc = "module"
    /\ \E override \in OverrideInputs :
         LET final == FinalApiKey(runtimeConfig, override)
             noOverrideKey == override.isNull \/ ~JsTruthy(override.apiKey)
         IN outcome' =
              IF runtimeConfig.isNull /\ noOverrideKey
              THEN [NoOutcome EXCEPT !.fn = "createConfiguredEyes",
                                     !.threw = TRUE,
                                     !.hadConfig = runtimeConfig,
                                     !.override = override]
              ELSE [NoOutcome EXCEPT !.fn = "createConfiguredEyes",
                                     !.eyesKey = IF JsTruthy(final) THEN final
                                                 ELSE Null,
                                     !.hadConfig = runtimeConfig,
                                     !.override = override]
    /\ BatchUnchanged
    /\ UNCHANGED <<runtimeConfig, process, child, document>>

NextRuntime ==
    \/ setApplitoolsConfig
    \/ clearRuntimeConfig
    \/ GetApiKey
    \/ validateApiKeyAvailability
    \/ createConfiguredEyes

SpecRuntime == InitRuntime /\ [][NextRuntime]_vars

\* ---- C22 ------------------------------------------------------------------
\* The value of the first --apiKey= argument: everything after the prefix.
CommandLineValue(argv) ==
    IF \E i \in DOMAIN argv : IsApiKeyArg(argv[i])
    THEN LET first == CHOOSE i \in DOMAIN argv :
                          /\ IsApiKeyArg(argv[i])
                          /\ \A j \in 1..(i - 1) : ~IsApiKeyArg(argv[j])
         IN Str(SubSeq(argv[first], 2, Len(argv[first])))
    ELSE Null

\* C22: getApiKeyFromAnywhere returns the key of the runtime configuration
\* if one is set, otherwise the value given with --apiKey= on the command
\* line, otherwise the value of APPLITOOLS_API_KEY, otherwise null; and
\* validateApiKeyAvailability is true exactly when that result is not null.
C22_KeyPriority ==
    LET expected ==
            IF ~runtimeConfig.isNull THEN runtimeConfig.apiKey
            ELSE IF JsTruthy(CommandLineValue(process.argv))
                 THEN CommandLineValue(process.argv)
            ELSE IF JsTruthy(process.env) THEN process.env
            ELSE Null
    IN /\ outcome.fn = "getApiKeyFromAnywhere" => outcome.value = expected
       /\ outcome.fn = "validateApiKeyAvailability" =>
            (outcome.flag <=> ~expected.isNull)

\* ---- C29 ------------------------------------------------------------------
\* C29: every Eyes instance createConfiguredEyes returns has a non-empty
\* API key: the call throws, or the instance carries the key of the
\* override if one is given, else the key of the runtime configuration.
C29_EyesAlwaysHasKey ==
    (outcome.fn = "createConfiguredEyes" /\ ~outcome.threw) =>
        /\ JsTruthy(outcome.eyesKey)
        /\ outcome.eyesKey =
             (IF ~outcome.override.isNull /\ outcome.override.hasApiKey
              THEN outcome.override.apiKey
              ELSE outcome.hadConfig.apiKey)

\* ---- The run-with-api-key wrapper ------------------------------------------
\* Bound: the largest exit code a child returns.
MaxExitCode == 2

\* What the close event of the child delivers.
ExitCodes == {Code(n) : n \in 0..MaxExitCode} \cup {NullCode}

\* parseArguments, from argument i on: --apiKey=value takes the piece after
\* the first '=', --apiKey takes the next argument, anything else belongs
\* to the command.
RECURSIVE ParseFrom(_, _, _, _)
ParseFrom(args, i, key, command) ==
    IF i > Len(args) THEN [apiKey |-> key, command |-> command]
    ELSE IF IsApiKeyArg(args[i])
         THEN ParseFrom(args, i + 1, Str(<<args[i][2]>>), command)
    ELSE IF args[i] = <<"--apiKey">> /\ i + 1 <= Len(args)
         THEN ParseFrom(args, i + 2, Str(args[i + 1]), command)
    ELSE ParseFrom(args, i + 1, key, Append(command, args[i]))

parseArguments(args) == ParseFrom(args, 1, Null, <<>>)

\* process.exit(code || 1)
ExitStatus(code) == IF code.isNull \/ code.n = 0 THEN 1 ELSE code.n

InitWrapper ==
    /\ apiKey = FALSE
    /\ files = [f \in {"source", "target"} |-> MissingFile]
    /\ testSummary = InitSummary
    /\ page = "undefined"
    /\ freshPages = 0
    /\ openSessions = 0
    /\ testNo = 1
    /\ pc = "main"
    /\ failedTests = {}
    /\ urls = <<>>
    /\ idx = 1
    /\ eyesOpened = FALSE
    /\ localPage = "shared"
    /\ result = NoResult
    /\ error = NoValue
    /\ calls = <<>>
    /\ log = <<>>
    /\ faults = 0
    /\ readOutcome = [f \in {"source", "target"} |-> "none"]
    /\ report = NoReport
    /\ suite = "run-with-api-key"
    /\ runtimeConfig = NullConfig
    /\ \E a \in ArgvSet, e \in EnvKeys :
         process = [argv |-> a, env |-> e, exited |-> FALSE, exitCode |-> 0]
    /\ outcome = NoOutcome
    /\ child = NoChild
    /\ document = LoadedDocument

WrapperFrame ==
    UNCHANGED <<apiKey, files, testSummary, page, freshPages, openSessions,
                testNo, failedTests, urls, idx, eyesOpened, localPage,
                result, error, calls, log, faults, readOutcome, report, suite,
                runtimeConfig, outcome, document>>

\* main up to the spawn: exit 1 without a key or without a command,
\* otherwise start the child with APPLITOOLS_API_KEY set to the key.
Main ==
    /\ pc = "main"
    /\ LET parsed == parseArguments(process.argv)
       IN IF ~JsTruthy(parsed.apiKey) \/ parsed.command = <<>>
          THEN /\ process' = [process EXCEPT !.exited = TRUE, !.exitCode = 1]
               /\ pc' = "exited"
               /\ UNCHANGED child
          ELSE /\ child' = [state |-> "running", code |-> NullCode,
                            envKey |-> parsed.apiKey, command |-> parsed.command]
               /\ pc' = "waiting"
               /\ UNCHANGED process
    /\ WrapperFrame

\* The child's error event (the command could not be started): exit 1.
ChildError ==
    /\ pc = "waiting" /\ child.state = "running"
    /\ child' = [child EXCEPT !.state = "error"]
    /\ process' = [process EXCEPT !.exited = TRUE, !.exitCode = 1]
    /\ pc' = "exited"
    /\ WrapperFrame

\* The child's close event with its exit code.
ChildClose ==
    /\ pc = "waiting" /\ child.state = "running"
    /\ \E code \in ExitCodes :
         /\ child' = [child EXCEPT !.state = "closed", !.code = code]
         /\ process' = [process EXCEPT !.exited = TRUE,
                                       !.exitCode = ExitStatus(code)]
    /\ pc' = "exited"
    /\ WrapperFrame

NextWrapper == Main \/ ChildError \/ ChildClose

SpecWrapper == InitWrapper /\ [][NextWrapper]_vars

\* ---- C27 ------------------------------------------------------------------
\* C27: the wrapper exits with the child's exit status: when the child's
\* close event delivered the code c, the wrapper's exit code is c, so it is
\* 0 when the test command succeeded and non-zero otherwise.
C27_ExitsWithChildStatus ==
    (process.exited /\ child.state = "closed" /\ ~child.code.isNull) =>
        /\ process.exitCode = child.code.n
        /\ process.exitCode = 0 <=> child.code.n = 0

\* ---- The sample page --------------------------------------------------------
\* Bound: number of setTimeout callbacks of the theme toggle not yet run.
MaxTimers == 2

InitPage ==
    /\ apiKey = FALSE
    /\ files = [f \in {"source", "target"} |-> MissingFile]
    /\ testSummary = InitSummary
    /\ page = "open"
    /\ freshPages = 0
    /\ openSessions = 0
    /\ testNo = 1
    /\ pc = "DOMContentLoaded"
    /\ failedTests = {}
    /\ urls = <<>>
    /\ idx = 1
    /\ eyesOpened = FALSE
    /\ localPage = "shared"
    /\ result = NoResult
    /\ error = NoValue
    /\ calls = <<>>
    /\ log = <<>>
    /\ faults = 0
    /\ readOutcome = [f \in {"source", "target"} |-> "none"]
    /\ report = NoReport
    /\ suite = "sample-page"
    /\ runtimeConfig = NullConfig
    /\ process = IdleProcess
    /\ outcome = NoOutcome
    /\ child = NoChild
    /\ document = LoadedDocument

\* A handler of the page ran: the DOM becomes doc, and the handler's name
\* is kept as the last event.
Handled(event, doc) ==
    /\ pc = "DOMContentLoaded"
    /\ document' = doc
    /\ outcome' = [NoOutcome EXCEPT !.fn = event]
    /\ UNCHANGED <<apiKey, files, testSummary, page, freshPages, openSessions,
                   testNo, pc, failedTests, urls, idx, eyesOpened, localPage,
                   result, error, calls, log, faults, readOutcome, report,
                   suite, runtimeConfig, process, child>>

\* Variant of closeModal: the class is removed, the scroll lock stays.
closeModal_KeepsScrollLock(doc) == [doc EXCEPT !.modalShow = FALSE]

\* closeModal: remove 'show', restore scrolling.
closeModal(doc) == [doc EXCEPT !.modalShow = FALSE, !.bodyOverflow = ""]

\* Click on #themeToggle: toggle dark-theme, set the button text, shrink
\* the button and schedule its restoration.
ThemeToggleClick ==
    /\ document.timers < MaxTimers
    /\ Handled("themeToggle.click",
               [document EXCEPT
                   !.darkTheme = ~@,
                   !.toggleText = IF ~document.darkTheme
                                  THEN "Toggle Light Mode" ELSE "Toggle Dark Mode",
                   !.toggleTransform = "scale(0.95)",
                   !.timers = @ + 1])

\* The timeout of the theme toggle fires.
ThemeToggleTimeout ==
    /\ document.timers > 0
    /\ Handled("themeToggle.timeout",
               [document EXCEPT !.toggleTransform = "scale(1)", !.timers = @ - 1])

\* Click on #showModal.
ShowModalClick ==
    Handled("showModalBtn.click",
            [document EXCEPT !.modalShow = TRUE, !.bodyOverflow = "hidden"])

\* Click on the close button.
CloseBtnClick == Handled("closeBtn.click", closeModal(document))

\* Click that reaches the modal's listener: on the backdrop (the target is
\* the modal itself) it closes, on the modal's content it does nothing.
ModalClick ==
    \E onBackdrop \in BOOLEAN :
        IF onBackdrop
        THEN Handled("backdrop.click", closeModal(document))
        ELSE Handled("modalContent.click", document)

\* A key goes down: Escape closes the modal when it is shown.
KeyDown ==
    \E key \in {"Escape", "Enter"} :
        Handled("keydown." \o key,
                IF key = "Escape" /\ document.modalShow
                THEN closeModal(document) ELSE document)

\* The pointer enters or leaves a feature card.
CardHover ==
    \E c \in 1..MaxCards, enter \in BOOLEAN :
        Handled(IF enter THEN "card.mouseenter" ELSE "card.mouseleave",
                [document EXCEPT
                    !.cardBorder[c] = IF enter THEN "#007bff" ELSE ""])

NextPage ==
    \/ ThemeToggleClick
    \/ ThemeToggleTimeout
    \/ ShowModalClick
    \/ CloseBtnClick
    \/ ModalClick
    \/ KeyDown
    \/ CardHover

SpecPage == InitPage /\ [][NextPage]_vars

\* ---- C30 ------------------------------------------------------------------
ClosingEvents == {"closeBtn.click", "backdrop.click", "keydown.Escape"}
ModalEvents == ClosingEvents \cup {"showModalBtn.click", "modalContent.click"}

\* C30: after any sequence of events the modal has class 'show' exactly
\* when body scrolling is locked (overflow hidden); only the click on the
\* show-modal button opens the modal; the close button, a backdrop click
\* and Escape always leave it closed; and the modal events leave the theme
\* (class and button text) unchanged.
C30_ModalAndScrollLock ==
    /\ [](document.modalShow <=> document.bodyOverflow = "hidden")
    /\ [][/\ (document'.modalShow /\ ~document.modalShow)
               => outcome'.fn = "showModalBtn.click"
          /\ outcome'.fn = "showModalBtn.click" => document'.modalShow
          /\ outcome'.fn \in ClosingEvents =>
               ~document'.modalShow /\ document'.bodyOverflow = ""
          /\ outcome'.fn \in ModalEvents =>
               /\ document'.darkTheme = document.darkTheme
               /\ document'.toggleText = document.toggleText]_vars

\* In the dark theme, Escape has just closed the modal.
C30_Witness ==
    /\ outcome.fn = "keydown.Escape"
    /\ document.darkTheme
    /\ ~document.modalShow
    /\ document.bodyOverflow = ""

\* ---- The example, basic and advanced suites -------------------------------
\* Each suite keeps a browser, a page, an Eyes object and the flag
\* eyesOpened; beforeEach and afterEach surround each of its tests.
SuiteNames == {"example", "basic", "advanced"}

\* The tests of each describe block.
NumTests(s) == IF s = "example" THEN 2 ELSE 3

\* The basic and advanced tests navigate before they open the session;
\* the example tests open the session first.
NavigatesBeforeOpen(s) == s \in {"basic", "advanced"}

\* eyes.close(false)
CloseNoThrow(ok) == [Call("close", ok) EXCEPT !.args.opt = "false"]

InitSuites ==
    /\ apiKey \in BOOLEAN
    /\ files = [f \in {"source", "target"} |-> MissingFile]
    /\ testSummary = InitSummary
    /\ page = "undefined"
    /\ freshPages = 0
    /\ openSessions = 0
    /\ testNo = 1
    /\ pc = "beforeEach"
    /\ failedTests = {}
    /\ urls = <<>>
    /\ idx = 0
    /\ eyesOpened = FALSE
    /\ localPage = "shared"
    /\ result = NoResult
    /\ error = NoValue
    /\ calls = <<>>
    /\ log = <<>>
    /\ faults = 0
    /\ readOutcome = [f \in {"source", "target"} |-> "none"]
    /\ report = NoReport
    /\ suite \in SuiteNames
    /\ runtimeConfig = NullConfig
    /\ process = IdleProcess
    /\ outcome = NoOutcome
    /\ child = NoChild
    /\ document = LoadedDocument

\* What no action of the suites changes.
SuiteFrame ==
    UNCHANGED <<apiKey, files, testSummary, freshPages, urls, localPage,
                result, readOutcome, report, suite, runtimeConfig, process,
                outcome, child, document>>

\* beforeEach: reset the flag, create the page, create and configure Eyes.
\* When browser.newPage() throws the test is not run and Jest goes on to
\* afterEach with the page of the previous test.
SuiteBeforeEach ==
    /\ pc = "beforeEach"
    /\ eyesOpened' = FALSE
    /\ error' = NoValue
    /\ idx' = 0
    /\ \/ /\ calls' = <<Call("newPage", TRUE)>>
          /\ page' = "open"
          /\ pc' = "test"
          /\ UNCHANGED <<faults, failedTests>>
       \/ /\ CanFault
          /\ calls' = <<Call("newPage", FALSE)>>
          /\ faults' = faults + 1
          /\ failedTests' = failedTests \cup {testNo}
          /\ pc' = "afterEach"
          /\ page' = page
    /\ UNCHANGED <<openSessions, testNo, log>>
    /\ SuiteFrame

\* A test without APPLITOOLS_API_KEY: the page is loaded and verified, the
\* function returns before any use of Eyes.
SuiteTestSkipped ==
    /\ pc = "test" /\ ~apiKey
    /\ \/ /\ calls' = Append(calls, Call("goto", TRUE))
          /\ UNCHANGED <<faults, failedTests>>
       \/ /\ CanFault
          /\ calls' = Append(calls, Call("goto", FALSE))
          /\ faults' = faults + 1
          /\ failedTests' = failedTests \cup {testNo}
    /\ pc' = "afterEach"
    /\ UNCHANGED <<page, openSessions, testNo, eyesOpened, error, idx, log>>
    /\ SuiteFrame

\* A test with the key, up to eyes.open: the basic and advanced tests load
\* the page first; eyesOpened is set on the line after a successful open.
\* Any exception is logged and thrown again by the test's catch.
SuiteTestOpen ==
    /\ pc = "test" /\ apiKey
    /\ LET before == IF NavigatesBeforeOpen(suite)
                     THEN Append(calls, Call("goto", TRUE)) ELSE calls
       IN \/ /\ calls' = Append(before, Call("open", TRUE))
             /\ eyesOpened' = TRUE
             /\ openSessions' = openSessions + 1
             /\ pc' = "opened"
             /\ UNCHANGED <<faults, failedTests>>
          \/ /\ CanFault
             /\ calls' = Append(before, Call("open", FALSE))
             /\ faults' = faults + 1
             /\ failedTests' = failedTests \cup {testNo}
             /\ pc' = "afterEach"
             /\ UNCHANGED <<eyesOpened, openSessions>>
          \/ /\ CanFault /\ NavigatesBeforeOpen(suite)
             /\ calls' = Append(calls, Call("goto", FALSE))
             /\ faults' = faults + 1
             /\ failedTests' = failedTests \cup {testNo}
             /\ pc' = "afterEach"
             /\ UNCHANGED <<eyesOpened, openSessions>>
    /\ UNCHANGED <<page, testNo, error, idx, log>>
    /\ SuiteFrame

\* The rest of a test with the key: checkpoints and assertions.
SuiteTestBody ==
    /\ pc = "opened"
    /\ \/ /\ calls' = Append(calls, Call("check", TRUE))
          /\ UNCHANGED <<faults, failedTests>>
       \/ /\ CanFault
          /\ calls' = Append(calls, Call("check", FALSE))
          /\ faults' = faults + 1
          /\ failedTests' = failedTests \cup {testNo}
    /\ pc' = "afterEach"
    /\ UNCHANGED <<page, openSessions, testNo, eyesOpened, error, idx, log>>
    /\ SuiteFrame

\* Variant of SuiteAfterEachTry: the session is closed whether or not the
\* test opened it.
SuiteAfterEachTry_Unguarded ==
    /\ pc = "afterEach"
    /\ idx' = Len(calls)
    /\ \/ /\ calls' = Append(calls, CloseNoThrow(TRUE))
          /\ openSessions' = Released(openSessions)
          /\ UNCHANGED <<faults, error>>
       \/ /\ CanFault
          /\ calls' = Append(calls, CloseNoThrow(FALSE))
          /\ faults' = faults + 1
          /\ error' = IF eyesOpened THEN "logged" ELSE error
          /\ UNCHANGED openSessions
    /\ pc' = "finally"
    /\ UNCHANGED <<page, testNo, failedTests, eyesOpened, log>>
    /\ SuiteFrame

\* afterEach, the try and catch blocks: eyes.close(false) when the test
\* opened the session; an exception is caught and logged.
SuiteAfterEachTry ==
    /\ pc = "afterEach"
    /\ idx' = Len(calls)
    /\ IF eyesOpened
       THEN \/ /\ calls' = Append(calls, CloseNoThrow(TRUE))
               /\ openSessions' = Released(openSessions)
               /\ UNCHANGED <<faults, error>>
            \/ /\ CanFault
               /\ calls' = Append(calls, CloseNoThrow(FALSE))
               /\ faults' = faults + 1
               /\ error' = "logged"
               /\ UNCHANGED openSessions
       ELSE UNCHANGED <<calls, openSessions, faults, error>>
    /\ pc' = "finally"
    /\ UNCHANGED <<page, testNo, failedTests, eyesOpened, log>>
    /\ SuiteFrame

\* The record of a finished test: whether the flag was set, the calls the
\* test made, the calls afterEach made, whether the exception of close was
\* logged, and the call whose exception afterEach threw.
SuiteEntry(hookCalls, thrown) ==
    [suite |-> suite, test |-> testNo, opened |-> eyesOpened,
     calls |-> SubSeq(calls, 1, idx), hook |-> hookCalls,
     logged |-> error = "logged", thrown |-> thrown]

\* afterEach is over: Jest runs the next test's beforeEach, or afterAll.
SuiteEndHook(hookCalls, thrown) ==
    /\ calls' = SubSeq(calls, 1, idx) \o hookCalls
    /\ log' = Append(log, SuiteEntry(hookCalls, thrown))
    /\ testNo' = testNo + 1
    /\ pc' = IF testNo = NumTests(suite) THEN "afterAll" ELSE "beforeEach"

\* afterEach, the finally block: eyes.abortIfNotClosed() when the test
\* opened the session, then page.close(); neither call is guarded.
SuiteAfterEachFinally ==
    /\ pc = "finally"
    /\ LET made == SubSeq(calls, idx + 1, Len(calls))
           aborted == IF eyesOpened
                      THEN Append(made, Call("abortIfNotClosed", TRUE))
                      ELSE made
       IN \/ /\ page \in {"open", "closed"}
             /\ SuiteEndHook(Append(aborted, Call("page.close", TRUE)), "none")
             /\ page' = "closed"
             /\ openSessions' = IF eyesOpened THEN Released(openSessions)
                                ELSE openSessions
             /\ UNCHANGED faults
          \/ /\ page = "undefined"
             /\ SuiteEndHook(aborted, "none")
             /\ openSessions' = IF eyesOpened THEN Released(openSessions)
                                ELSE openSessions
             /\ UNCHANGED <<page, faults>>
          \/ /\ CanFault /\ page = "open"
             /\ SuiteEndHook(Append(aborted, Call("page.close", FALSE)),
                             "page.close")
             /\ openSessions' = IF eyesOpened THEN Released(openSessions)
                                ELSE openSessions
             /\ faults' = faults + 1
             /\ UNCHANGED page
          \/ /\ CanFault /\ eyesOpened
             /\ SuiteEndHook(Append(made, Call("abortIfNotClosed", FALSE)),
                             "abortIfNotClosed")
             /\ openSessions' = Released(openSessions)
             /\ faults' = faults + 1
             /\ UNCHANGED page
    /\ UNCHANGED <<failedTests, eyesOpened, error, idx>>
    /\ SuiteFrame

\* afterAll: the browser is closed, and with it the page left open.
SuiteAfterAll ==
    /\ pc = "afterAll"
    /\ page' = IF page = "open" THEN "closed" ELSE page
    /\ pc' = "done"
    /\ UNCHANGED <<openSessions, testNo, failedTests, eyesOpened, error, idx,
                   calls, log, faults>>
    /\ SuiteFrame

NextSuites ==
    \/ SuiteBeforeEach
    \/ SuiteTestSkipped
    \/ SuiteTestOpen
    \/ SuiteTestBody
    \/ SuiteAfterEachTry
    \/ SuiteAfterEachFinally
    \/ SuiteAfterAll

SpecSuites == InitSuites /\ [][NextSuites]_vars

\* ---- C25 ------------------------------------------------------------------
OpsOf(cs) == [i \in 1..Len(cs) |-> cs[i].op]
EyesOps(cs) == SelectSeq(OpsOf(cs), LAMBDA op : op \in {"close", "abortIfNotClosed"})
OpenSucceeded(cs) == \E i \in 1..Len(cs) : cs[i].op = "open" /\ cs[i].ok
CloseThrew(cs) == \E i \in 1..Len(cs) : cs[i].op = "close" /\ ~cs[i].ok

\* C25: in the example, basic and advanced suites afterEach calls
\* eyes.close(false) and then eyes.abortIfNotClosed() exactly when the test
\* set eyesOpened, which it does exactly when eyes.open succeeded; for a
\* test that skipped or failed before open neither is called; eyesOpened is
\* false when a test starts; and an exception of close is logged, never
\* thrown from afterEach.
C25_AfterEachCleanup ==
    /\ pc = "test" => ~eyesOpened
    /\ \A i \in 1..Len(log) :
         LET e == log[i]
         IN /\ e.opened <=> OpenSucceeded(e.calls)
            /\ e.opened => EyesOps(e.hook) = <<"close", "abortIfNotClosed">>
            /\ ~e.opened => EyesOps(e.hook) = <<>>
            /\ \A j \in 1..Len(e.hook) :
                 e.hook[j].op = "close" => e.hook[j].args.opt = "false"
            /\ CloseThrew(e.hook) => e.logged /\ e.thrown # "close"
            /\ e.thrown \in {"none", "abortIfNotClosed", "page.close"}

\* A test failed before open and afterEach called neither close nor abort;
\* the next test opened the session, its close threw, and afterEach logged
\* the exception, called abortIfNotClosed and returned normally.
C25_Witness ==
    /\ Len(log) >= 2
    /\ ~log[1].opened /\ log[1].test \in failedTests
    /\ EyesOps(log[1].hook) = <<>>
    /\ log[2].opened /\ CloseThrew(log[2].hook)
    /\ log[2].thrown = "none"
    /\ EyesOps(log[2].hook) = <<"close", "abortIfNotClosed">>

====
